---- MODULE Spec2Model ----
(***************************************************************************)
(* Job coordination of yubal: the in-memory JobStore of yubal/core/jobs.py *)
(* (specification SpecJobs) and the JobExecutor of                         *)
(* yubal_api/services/job_executor.py running against the job store it     *)
(* is wired to (specification Spec).                                       *)
(***************************************************************************)
EXTENDS Integers, Sequences, FiniteSets, TLC

\* ------------------------------------------------------------------ bounds
\* number of Job ids ever generated (uuid4: an id is never reused)
MaxJobs == 3
\* JobStore.MAX_JOBS, scaled down from 50 so that the capacity is reached
MAX_JOBS == 2
\* JobStore.TIMEOUT_SECONDS = 30 * 60
TIMEOUT_SECONDS == 1800
\* the clock stops advancing here
MaxNow == 1801
\* number of Jobs ever enqueued with the executor's store
MaxRuns == 2
\* relayed transitions waiting in the loop's queue at a time
MaxRelays == 1

\* JobEventBus.SUBSCRIBER_QUEUE_SIZE, scaled down from 100 so that queues
\* fill up
SUBSCRIBER_QUEUE_SIZE == 2
\* number of events ever emitted on the bus
MaxEvents == 4
\* number of subscribe() calls ever made
MaxSubs == 2

\* number of start() calls that ever create a loop task
MaxStarts == 2
\* number of times one loop task runs _sync_all_enabled
MaxSyncs == 2
\* number of synced playlists in the repository
MaxPlaylists == 2
\* longest configured interval, in units of the loop's clock
MaxInterval == 2
\* number of releases in a discography plan
MaxReleases == 3
\* number of tracks of an album or playlist
MaxTracks == 2
\* number of reports the downloader makes in one download
MaxTrackEvents == 2
\* progress events one POST /sync request's pipeline emits
MaxStreamEvents == 3

\* ------------------------------------------------------------ conventions
\* Python None for an id, a timestamp, a status argument, an error text, a
\* progress value
NoId == 0
NoTime == -1
NoStatus == "none"
NoError == "none"
NoProgress == [none |-> TRUE]

JobIds == 1..MaxJobs
RunIds == 1..MaxRuns

\* the amounts by which the clock advances in one step: exactly the ceiling
\* (elapsed = TIMEOUT_SECONDS is not yet a timeout) and one second past it
TickSteps == {TIMEOUT_SECONDS, TIMEOUT_SECONDS + 1}

VARIABLES
    jobs,           \* JobStore._jobs: id -> Job (ids grow in insertion order)
    active_job_id,  \* JobStore._active_job_id
    nextId,         \* the next uuid to hand out
    now,            \* datetime.now(UTC), in seconds
    ret             \* what the last create_job returned (a Job id or None)

jvars == <<jobs, active_job_id, nextId, now, ret>>

\* JobExecutor and the job store it is constructed with
VARIABLES
    job_store,      \* JobExecutor._job_store: [jobs, active, next]
    cancel_tokens,  \* JobExecutor._cancel_tokens: the registered job ids
    cancelled,      \* the jobs whose CancelToken is set (is_cancelled)
    pc,             \* where the _run_job task of each job is
    emitted,        \* the number of the last step the job's pipeline emitted
    loopq,          \* the event loop's ready queue (FIFO)
    cret,           \* the last cancel_job call: its job_id and what it returned
    content_info,   \* who set each Job's content_info, if anyone
    prefetch        \* where the _run_metadata_prefetch task of each job is

mvars == <<content_info, prefetch>>

xvars == <<job_store, cancel_tokens, cancelled, pc, emitted, loopq, cret,
           content_info, prefetch>>

\* JobEventBus and the consumers of its queues
VARIABLES
    subscribers,    \* JobEventBus._subscribers: the list of queues
    queues,         \* the items of each asyncio.Queue made by subscribe()
    nevents,        \* the number of emit calls so far (event n is the n-th)
    sub_pc,         \* where each subscribe() context is
    since,          \* nevents when the queue was subscribed
    last            \* the last event the consumer took from the queue

bvars == <<subscribers, queues, nevents, sub_pc, since, last>>

\* SyncScheduler, its loop tasks and its stop() calls
VARIABLES
    task,           \* SyncScheduler._task: a loop task or None
    stop_event,     \* SyncScheduler._stop_event: an Event or None
    event_set,      \* the Events that are set
    loop_pc,        \* where each _run_loop task is
    must_cancel,    \* the loop tasks for which cancel() was called
    awaiting,       \* the loop tasks some stop() call is awaiting
    stopped,        \* the loop tasks for which a stop() call has returned
    synced,         \* how often each loop task ran _sync_all_enabled
    config,         \* the repository's SyncConfig: enabled, interval
    iter,           \* each loop task's config, Event and time waited
    playlists       \* the repository's SyncedPlaylists

svars == <<task, stop_event, event_set, loop_pc, must_cancel, awaiting,
           stopped, synced, config, iter, playlists>>

\* DiscographyService.run, once per discography Job
VARIABLES
    disco,          \* each run: where it is, its plan and its counters
    pipeline,       \* one run of sync_album or sync_playlist
    events,         \* the ProgressEvents that run has emitted
    scale,          \* one call of _scale_progress: arguments and value
    prog,           \* the progress values of one discography run
    stream          \* one request of POST /sync and its response stream

pvars == <<scale, prog, stream>>

dvars == <<disco, pipeline, events, scale, prog, stream>>

vars == <<jobs, active_job_id, nextId, now, ret, job_store, cancel_tokens,
          cancelled, pc, emitted, loopq, cret, content_info, prefetch,
          subscribers, queues, nevents,
          sub_pc, since, last, task, stop_event, event_set, loop_pc,
          must_cancel, awaiting, stopped, synced, config, iter, playlists,
          disco, pipeline, events, scale, prog, stream>>

\* ------------------------------------------------- yubal/core/jobs.py model
\* class JobStatus of jobs.py
PENDING == "pending"
DOWNLOADING == "downloading"
TAGGING == "tagging"
COMPLETE == "complete"
FAILED == "failed"

JobStatus == {PENDING, DOWNLOADING, TAGGING, COMPLETE, FAILED}

\* the statuses update_job and _check_timeout treat as ended
Ended == {COMPLETE, FAILED}

TimeoutError == "Job timed out after 30 minutes"

\* dataclass Job with its defaults
Job(url_id) ==
    [status |-> PENDING, error |-> NoError,
     started_at |-> NoTime, completed_at |-> NoTime]

Min(S) == CHOOSE x \in S : \A y \in S : x <= y

\* the store after the pruning loop of create_job: while at capacity, the
\* first item of the OrderedDict (the oldest id) is deleted
RECURSIVE Prune(_)
Prune(js) ==
    IF Cardinality(DOMAIN js) >= MAX_JOBS
    THEN Prune([k \in (DOMAIN js) \ {Min(DOMAIN js)} |-> js[k]])
    ELSE js

\* _check_timeout applied to one job when datetime.now(UTC) reads t: its
\* condition, and the job after the check
TimedOutAt(job, t) ==
    /\ job.started_at # NoTime
    /\ job.status \notin Ended
    /\ t - job.started_at > TIMEOUT_SECONDS

CheckTimeoutAt(job, t) ==
    IF TimedOutAt(job, t)
    THEN [job EXCEPT !.status = FAILED, !.error = TimeoutError,
                     !.completed_at = t]
    ELSE job

TimedOut(job) == TimedOutAt(job, now)

_check_timeout(job) == CheckTimeoutAt(job, now)

\* the active slot after _check_timeout ran on the jobs in S
SlotAfterTimeout(S) ==
    IF active_job_id \in S /\ active_job_id \in DOMAIN jobs
       /\ TimedOut(jobs[active_job_id])
    THEN NoId ELSE active_job_id

\* create_job without "self._active_job_id = job.id"
create_job_no_slot ==
    /\ nextId <= MaxJobs
    /\ IF /\ active_job_id # NoId
          /\ active_job_id \in DOMAIN jobs
          /\ jobs[active_job_id].status \notin Ended
       THEN /\ ret' = NoId
            /\ UNCHANGED <<jobs, active_job_id, nextId>>
       ELSE /\ jobs' = [k \in DOMAIN Prune(jobs) \cup {nextId} |->
                           IF k = nextId THEN Job(nextId) ELSE jobs[k]]
            /\ UNCHANGED active_job_id
            /\ nextId' = nextId + 1
            /\ ret' = nextId
    /\ UNCHANGED now

create_job ==
    /\ nextId <= MaxJobs
    /\ IF /\ active_job_id # NoId
          /\ active_job_id \in DOMAIN jobs
          /\ jobs[active_job_id].status \notin Ended
       THEN /\ ret' = NoId
            /\ UNCHANGED <<jobs, active_job_id, nextId>>
       ELSE /\ jobs' = [k \in DOMAIN Prune(jobs) \cup {nextId} |->
                           IF k = nextId THEN Job(nextId) ELSE jobs[k]]
            /\ active_job_id' = nextId
            /\ nextId' = nextId + 1
            /\ ret' = nextId
    /\ UNCHANGED now

get_job(job_id) ==
    /\ IF job_id \in DOMAIN jobs
       THEN /\ jobs' = [jobs EXCEPT ![job_id] = _check_timeout(@)]
            /\ active_job_id' = SlotAfterTimeout({job_id})
            /\ UNCHANGED ret
       ELSE /\ UNCHANGED ret
            /\ UNCHANGED <<jobs, active_job_id>>
    /\ UNCHANGED <<nextId, now>>

get_all_jobs ==
    /\ jobs' = [k \in DOMAIN jobs |-> _check_timeout(jobs[k])]
    /\ active_job_id' = SlotAfterTimeout(DOMAIN jobs)
    /\ UNCHANGED ret
    /\ UNCHANGED <<nextId, now>>

get_active_job ==
    /\ IF active_job_id # NoId /\ active_job_id \in DOMAIN jobs
       THEN /\ jobs' = [jobs EXCEPT ![active_job_id] = _check_timeout(@)]
            /\ active_job_id' = SlotAfterTimeout({active_job_id})
            /\ UNCHANGED ret
       ELSE /\ UNCHANGED ret
            /\ UNCHANGED <<jobs, active_job_id>>
    /\ UNCHANGED <<nextId, now>>

\* the job after the field assignments and the completed_at default
Updated(job, status, error, started_at, completed_at) ==
    LET a == [job EXCEPT
                !.status = IF status # NoStatus THEN status ELSE @,
                !.error = IF error # NoError THEN error ELSE @,
                !.started_at = IF started_at # NoTime THEN started_at ELSE @,
                !.completed_at =
                    IF completed_at # NoTime THEN completed_at ELSE @]
    IN  IF a.status \in Ended
        THEN [a EXCEPT !.completed_at = IF @ # NoTime THEN @ ELSE now]
        ELSE a

\* update_job without "self._active_job_id = None"
update_job_keep_slot(job_id, status, error, started_at, completed_at) ==
    /\ IF job_id \notin DOMAIN jobs
       THEN /\ UNCHANGED ret
            /\ UNCHANGED <<jobs, active_job_id>>
       ELSE /\ jobs' = [jobs EXCEPT ![job_id] =
                  Updated(@, status, error, started_at, completed_at)]
            /\ UNCHANGED active_job_id
            /\ UNCHANGED ret
    /\ UNCHANGED <<nextId, now>>

update_job(job_id, status, error, started_at, completed_at) ==
    /\ IF job_id \notin DOMAIN jobs
       THEN /\ UNCHANGED ret
            /\ UNCHANGED <<jobs, active_job_id>>
       ELSE /\ jobs' = [jobs EXCEPT ![job_id] =
                  Updated(@, status, error, started_at, completed_at)]
            /\ active_job_id' =
                  IF jobs'[job_id].status \in Ended /\ active_job_id = job_id
                  THEN NoId ELSE active_job_id
            /\ UNCHANGED ret
    /\ UNCHANGED <<nextId, now>>

\* delete_job without the test of the status
delete_job_any_status(job_id) ==
    /\ IF job_id \in DOMAIN jobs
       THEN /\ jobs' = [k \in (DOMAIN jobs) \ {job_id} |-> jobs[k]]
            /\ UNCHANGED ret
       ELSE /\ UNCHANGED ret
            /\ UNCHANGED jobs
    /\ UNCHANGED <<active_job_id, nextId, now>>

\* what delete_job(job_id) and clear_completed() return
delete_job_returns(job_id) ==
    job_id \in DOMAIN jobs /\ jobs[job_id].status \in Ended

clear_completed_returns ==
    Cardinality({k \in DOMAIN jobs : jobs[k].status \in Ended})

delete_job(job_id) ==
    /\ IF job_id \in DOMAIN jobs /\ jobs[job_id].status \in Ended
       THEN /\ jobs' = [k \in (DOMAIN jobs) \ {job_id} |-> jobs[k]]
            /\ UNCHANGED ret
       ELSE /\ UNCHANGED ret
            /\ UNCHANGED jobs
    /\ UNCHANGED <<active_job_id, nextId, now>>

clear_completed ==
    LET to_remove == {k \in DOMAIN jobs : jobs[k].status \in Ended}
    IN  /\ jobs' = [k \in (DOMAIN jobs) \ to_remove |-> jobs[k]]
        /\ UNCHANGED ret
        /\ UNCHANGED <<active_job_id, nextId, now>>

\* time passes
Tick ==
    /\ \E d \in TickSteps : now + d <= MaxNow /\ now' = now + d
    /\ UNCHANGED ret
    /\ UNCHANGED <<jobs, active_job_id, nextId>>

\* ----------------------------------------- the executor's job store model
\* class JobStatus of yubal/core/enums.py (PENDING, DOWNLOADING and FAILED
\* have the values defined above)
FETCHING_INFO == "fetching_info"
IMPORTING == "importing"
COMPLETED == "completed"
CANCELLED == "cancelled"

\* JobStatus.is_finished
is_finished(status) == status \in {COMPLETED, FAILED, CANCELLED}

\* class ProgressStep, in the order a pipeline goes through the steps
ProgressStep == <<FETCHING_INFO, DOWNLOADING, IMPORTING, COMPLETED, FAILED>>

\* a Job of the executor's store, as created by enqueue
NewJob == [status |-> PENDING, started_at |-> NoTime, error |-> NoError]

\* enqueue: a new PENDING Job; admitted at once if no Job is active
StoreCreate(s) ==
    [jobs |-> [k \in DOMAIN s.jobs \cup {s.next} |->
                  IF k = s.next THEN NewJob ELSE s.jobs[k]],
     active |-> IF s.active = NoId THEN s.next ELSE s.active,
     next |-> s.next + 1]

\* transition(job_id, new_status, started_at?, error?): unknown id: no-op; a
\* Job in a terminal status is not re-opened; a field that is not passed
\* keeps its value
transition(s, job_id, status, started_at, error) ==
    IF job_id \notin DOMAIN s.jobs THEN s
    ELSE IF is_finished(s.jobs[job_id].status) THEN s
    ELSE [s EXCEPT !.jobs[job_id].status = status,
                   !.jobs[job_id].started_at =
                       IF started_at # NoTime THEN started_at ELSE @,
                   !.jobs[job_id].error =
                       IF error # NoError THEN error ELSE @]

\* release_active(job_id): clears the slot iff it holds job_id
release_active(s, job_id) ==
    IF s.active = job_id THEN [s EXCEPT !.active = NoId] ELSE s

\* pop_next_pending taking the oldest Job that is not COMPLETED or FAILED
NextUnfinished(s) ==
    LET pend == {k \in DOMAIN s.jobs :
                    s.jobs[k].status \notin {COMPLETED, FAILED}}
    IN  IF s.active = NoId /\ pend # {} THEN Min(pend) ELSE NoId

\* the Job pop_next_pending returns: the oldest PENDING Job if no Job is
\* active, otherwise none
NextPending(s) ==
    LET pend == {k \in DOMAIN s.jobs : s.jobs[k].status = PENDING}
    IN  IF s.active = NoId /\ pend # {} THEN Min(pend) ELSE NoId

\* pop_next_pending that returns the Job without marking it active
pop_without_mark(s) == s

\* the store after pop_next_pending: the returned Job holds the slot
pop_next_pending(s) ==
    IF NextPending(s) # NoId THEN [s EXCEPT !.active = NextPending(s)] ELSE s

\* explicit cancellation: a non-terminal Job becomes CANCELLED
StoreCancel(s, job_id) ==
    IF job_id \in DOMAIN s.jobs /\ ~is_finished(s.jobs[job_id].status)
    THEN [s EXCEPT !.jobs[job_id].status = CANCELLED]
    ELSE s

\* timeout sweep on one Job observed at time t: past the ceiling it is
\* FAILED with the timeout error and no longer holds the slot
StoreTimedOut(s, k, t) ==
    /\ s.jobs[k].started_at # NoTime
    /\ ~is_finished(s.jobs[k].status)
    /\ t - s.jobs[k].started_at > TIMEOUT_SECONDS

StoreGet(s, job_id, t) ==
    IF job_id \in DOMAIN s.jobs /\ StoreTimedOut(s, job_id, t)
    THEN [s EXCEPT !.jobs[job_id].status = FAILED,
                   !.jobs[job_id].error = TimeoutError,
                   !.active = IF @ = job_id THEN NoId ELSE @]
    ELSE s

\* ------------------------------------------------------ job_executor.py
Callback(kind, job, status) == [kind |-> kind, job |-> job, status |-> status]

\* start_job: create_task(_run_job(job)); the task's first step is queued
start_job(q, job_id) == Append(q, Callback("start", job_id, NoStatus))

\* _step_to_status
_step_to_status(step) ==
    IF step \in {FETCHING_INFO, DOWNLOADING, IMPORTING, COMPLETED, FAILED}
    THEN step ELSE DOWNLOADING

\* on_progress, called in the worker thread: the loop's queue afterwards
on_progress(q, job_id, step) ==
    IF job_id \in cancelled THEN q
    ELSE IF _step_to_status(step) \in {COMPLETED, FAILED} THEN q
    ELSE Append(q, Callback("relay", job_id, _step_to_status(step)))

\* the finally block of _run_job, entered with store s, ready queue q and
\* token registry reg: cleanup_part_files (only for a cancelled job; raises
\* means it raises), the token is unregistered, the slot released and the
\* next pending Job started
Finally(job_id, s, q, reg, tokenSet, raises) ==
    IF tokenSet /\ raises
    THEN /\ job_store' = s
         /\ loopq' = q
         /\ cancel_tokens' = reg
         /\ UNCHANGED cancelled
         /\ pc' = [pc EXCEPT ![job_id] = "aborted"]
    ELSE LET s2 == release_active(s, job_id)
             next_job == NextPending(s2)
         IN  /\ cancel_tokens' = reg \ {job_id}
             /\ cancelled' = cancelled \ {job_id}
             /\ job_store' = pop_next_pending(s2)
             /\ loopq' = IF next_job # NoId THEN start_job(q, next_job) ELSE q
             /\ pc' = [k \in RunIds |->
                          IF k = next_job THEN "task"
                          ELSE IF k = job_id THEN "done" ELSE pc[k]]

\* cancel_token = CancelToken(): the set tokens once job_id has a new token
FreshToken(job_id) == cancelled \ {job_id}

\* _run_job up to its await: a fresh token is registered, the Job goes to
\* FETCHING_INFO and the pipeline is handed to a worker thread; for a
\* discography Job without channel_id (no_channel) the ValueError is raised
\* and handled, and the finally block runs, before any await
RunJobBegin(job_id, no_channel) ==
    /\ loopq # <<>>
    /\ Head(loopq) = Callback("start", job_id, NoStatus)
    /\ IF job_id \in FreshToken(job_id)
       THEN \E raises \in BOOLEAN :
                Finally(job_id, job_store, Tail(loopq),
                        cancel_tokens \cup {job_id}, TRUE, raises)
       ELSE IF no_channel
       THEN Finally(job_id,
                    transition(transition(job_store, job_id, FETCHING_INFO,
                                          now, NoError),
                               job_id, FAILED, NoTime, NoError),
                    Tail(loopq), cancel_tokens \cup {job_id}, FALSE, FALSE)
       ELSE /\ cancel_tokens' = cancel_tokens \cup {job_id}
            /\ cancelled' = FreshToken(job_id)
            /\ job_store' = transition(job_store, job_id, FETCHING_INFO, now,
                                       NoError)
            /\ loopq' = Tail(loopq)
            /\ pc' = [pc EXCEPT ![job_id] = "run"]
    /\ UNCHANGED <<jvars, bvars, svars, dvars, mvars, emitted, cret>>

\* the number of relayed transitions waiting in the loop's queue
Relays == Cardinality({i \in 1..Len(loopq) : loopq[i].kind = "relay"})

\* the pipeline, in the worker thread, enters its next phase and reports it
PipelineEmit(job_id, n) ==
    /\ pc[job_id] = "run"
    /\ n = emitted[job_id] + 1
    /\ Relays < MaxRelays
    /\ emitted' = [emitted EXCEPT ![job_id] = n]
    /\ loopq' = on_progress(loopq, job_id, ProgressStep[n])
    /\ UNCHANGED <<jvars, bvars, svars, dvars, mvars,
                   job_store, cancel_tokens, cancelled, pc, cret>>

\* a transition scheduled by on_progress runs on the loop
\* the relayed transition on the loop, apart from the Job's content_info
RelayStep ==
    /\ loopq # <<>>
    /\ Head(loopq).kind = "relay"
    /\ job_store' = transition(job_store, Head(loopq).job, Head(loopq).status,
                               NoTime, NoError)
    /\ loopq' = Tail(loopq)
    /\ UNCHANGED <<jvars, bvars, svars, dvars,
                   cancel_tokens, cancelled, pc, emitted, cret>>

\* the relay where no pre-fetch runs: content_info is not followed
ApplyRelay == RelayStep /\ UNCHANGED mvars

\* the relay with the content_info it carries: the pipeline's FETCHING_INFO
\* event has the content_info in its details, and an applied transition
\* sets it on the Job
ApplyRelayInfo ==
    /\ RelayStep
    /\ content_info' =
          IF Head(loopq).status = FETCHING_INFO
                /\ Head(loopq).job \in DOMAIN job_store.jobs
                /\ ~is_finished(job_store.jobs[Head(loopq).job].status)
          THEN [content_info EXCEPT ![Head(loopq).job] = "pipeline"]
          ELSE content_info
    /\ UNCHANGED prefetch

\* the worker thread's call ends: after its three phases it reports COMPLETED
\* and returns success; in any phase it reports FAILED and returns failure,
\* or raises; the awaiting task is woken
PipelineReturn(job_id, outcome) ==
    /\ pc[job_id] = "run"
    /\ outcome = "ok" => emitted[job_id] = 3
    /\ pc' = [pc EXCEPT ![job_id] = outcome]
    /\ emitted' = [emitted EXCEPT ![job_id] = 0]
    /\ loopq' = Append(IF outcome = "ok"
                          THEN on_progress(loopq, job_id, COMPLETED)
                       ELSE IF outcome = "fail"
                          THEN on_progress(loopq, job_id, FAILED)
                       ELSE loopq,
                       Callback("wake", job_id, NoStatus))
    /\ UNCHANGED <<jvars, bvars, svars, dvars, mvars,
                   job_store, cancel_tokens, cancelled, cret>>

\* "; ".join(errors)
RECURSIVE Join(_)
Join(errors) ==
    IF Len(errors) = 1 THEN errors[1]
    ELSE errors[1] \o "; " \o Join(Tail(errors))

\* _result_error: result.error, else the joined result.errors, else a default
_result_error(result) ==
    IF result.error # NoError /\ result.error # "" THEN result.error
    ELSE IF result.errors # <<>> THEN Join(result.errors)
    ELSE "Unknown error"

\* the results a failed pipeline call returns: a SyncResult with its error,
\* a DiscographyResult with its list of errors, a result with neither
FailedResults ==
    {[success |-> FALSE, error |-> "download failed", errors |-> <<>>],
     [success |-> FALSE, error |-> NoError,
      errors |-> <<"album 1 failed", "album 2 failed">>],
     [success |-> FALSE, error |-> NoError, errors |-> <<>>]}

\* _run_job whose except block only logs the exception
RunJobEnd_log_only(job_id, raises) ==
    /\ loopq # <<>>
    /\ Head(loopq) = Callback("wake", job_id, NoStatus)
    /\ LET tokenSet == job_id \in cancelled
           status == IF pc[job_id] = "raise" THEN NoStatus
                     ELSE IF tokenSet THEN NoStatus
                     ELSE IF pc[job_id] = "ok" THEN COMPLETED ELSE FAILED
           s1 == IF status = NoStatus THEN job_store
                 ELSE transition(job_store, job_id, status, NoTime, NoError)
       IN  Finally(job_id, s1, Tail(loopq), cancel_tokens, tokenSet, raises)
    /\ UNCHANGED <<jvars, bvars, svars, dvars, mvars, emitted, cret>>

\* _run_job from the await on: the outcome is handled, then the finally
\* block; the error_msg of a failed result is logged, the transition is
\* called with the status alone
RunJobEnd(job_id, raises) ==
    /\ loopq # <<>>
    /\ Head(loopq) = Callback("wake", job_id, NoStatus)
    /\ \E result \in FailedResults :
        LET tokenSet == job_id \in cancelled
            error_msg == _result_error(result)
            status == IF pc[job_id] = "raise" THEN FAILED
                      ELSE IF tokenSet THEN NoStatus
                      ELSE IF pc[job_id] = "ok" THEN COMPLETED ELSE FAILED
            s1 == IF status = NoStatus THEN job_store
                  ELSE transition(job_store, job_id, status, NoTime, NoError)
        IN  /\ error_msg # NoError
            /\ Finally(job_id, s1, Tail(loopq), cancel_tokens, tokenSet,
                       raises)
    /\ UNCHANGED <<jvars, bvars, svars, dvars, mvars, emitted, cret>>

\* token.cancel() on the token registered for job_id: the set tokens after
cancel(job_id) == cancelled \cup {job_id}

\* cancel_job reporting True without looking for the token
cancel_job_always_true(job_id) ==
    /\ cancelled' = IF job_id \notin cancel_tokens THEN cancelled
                    ELSE cancel(job_id)
    /\ cret' = [job |-> job_id, ok |-> TRUE]
    /\ UNCHANGED <<jvars, bvars, svars, dvars, mvars,
                   job_store, cancel_tokens, pc, emitted, loopq>>

cancel_job(job_id) ==
    /\ IF job_id \notin cancel_tokens
       THEN /\ cret' = [job |-> job_id, ok |-> FALSE]
            /\ UNCHANGED cancelled
       ELSE /\ cancelled' = cancel(job_id)
            /\ cret' = [job |-> job_id, ok |-> TRUE]
    /\ UNCHANGED <<jvars, bvars, svars, dvars, mvars,
                   job_store, cancel_tokens, pc, emitted, loopq>>

cancel_all_jobs ==
    /\ cancelled' = cancelled \cup cancel_tokens
    /\ UNCHANGED <<jvars, bvars, svars, dvars, mvars,
                   job_store, cancel_tokens, pc, emitted, loopq,
                   cret>>

\* the route that accepts a Job: enqueue, and start_job if it was admitted
Enqueue ==
    /\ job_store.next <= MaxRuns
    /\ job_store' = StoreCreate(job_store)
    /\ IF job_store.active = NoId
       THEN /\ loopq' = start_job(loopq, job_store.next)
            /\ pc' = [pc EXCEPT ![job_store.next] = "task"]
       ELSE UNCHANGED <<loopq, pc>>
    /\ UNCHANGED <<jvars, bvars, svars, dvars, mvars,
                   cancel_tokens, cancelled, emitted, cret>>

\* the cancel route: the store's explicit cancellation of a non-terminal
\* Job, and the executor's cancel_job
CancelRequest(job_id) ==
    /\ job_id \in DOMAIN job_store.jobs
    /\ ~is_finished(job_store.jobs[job_id].status)
    /\ job_store' = StoreCancel(job_store, job_id)
    /\ cancelled' = IF job_id \notin cancel_tokens THEN cancelled
                    ELSE cancel(job_id)
    /\ UNCHANGED <<jvars, bvars, svars, dvars, mvars,
                   cancel_tokens, pc, emitted, loopq, cret>>

\* a read of one Job, elapsed seconds after the executor's clock reading,
\* with the store's timeout check
GetJob(job_id, elapsed) ==
    /\ job_store' = StoreGet(job_store, job_id, now + elapsed)
    /\ UNCHANGED <<jvars, bvars, svars, dvars, mvars,
                   cancel_tokens, cancelled, pc, emitted, loopq,
                   cret>>

\* start_metadata_prefetch: create_task(_run_metadata_prefetch(job))
start_metadata_prefetch(job_id) ==
    /\ job_id \in DOMAIN job_store.jobs
    /\ prefetch[job_id] = "none"
    /\ prefetch' = [prefetch EXCEPT ![job_id] = "running"]
    /\ UNCHANGED <<jvars, bvars, svars, dvars, job_store, cancel_tokens,
                   cancelled, pc, emitted, loopq, cret, content_info>>

\* _run_metadata_prefetch from the await on: resolve returned content_info
\* (found) or None, or raised; the result is dropped if the Job is gone,
\* finished or has a content_info, else it is attached by a transition to
\* the Job's current status
_run_metadata_prefetch(job_id, found) ==
    /\ prefetch[job_id] = "running"
    /\ prefetch' = [prefetch EXCEPT ![job_id] = "done"]
    /\ LET s == StoreGet(job_store, job_id, now)
       IN  IF ~found
              \/ job_id \notin DOMAIN s.jobs
              \/ is_finished(s.jobs[job_id].status)
              \/ content_info[job_id] # "none"
           THEN /\ job_store' = s
                /\ UNCHANGED content_info
           ELSE /\ job_store' = transition(s, job_id, s.jobs[job_id].status,
                                           NoTime, NoError)
                /\ content_info' = [content_info EXCEPT ![job_id] = "prefetch"]
    /\ UNCHANGED <<jvars, bvars, svars, dvars, cancel_tokens, cancelled, pc,
                   emitted, loopq, cret>>

InitExec ==
    /\ content_info = [j \in RunIds |-> "none"]
    /\ prefetch = [j \in RunIds |-> "none"]
    /\ job_store = [jobs |-> <<>>, active |-> NoId, next |-> 1]
    /\ cancel_tokens = {}
    /\ cancelled = {}
    /\ pc = [j \in RunIds |-> "none"]
    /\ emitted = [j \in RunIds |-> 0]
    /\ loopq = <<>>
    /\ cret = [job |-> NoId, ok |-> FALSE]

InitJobs ==
    /\ jobs = <<>>
    /\ active_job_id = NoId
    /\ nextId = 1
    /\ now = 0
    /\ ret = NoId

\* ------------------------------------------------------- job_event_bus.py
QueueIds == 1..MaxSubs

\* queue.put_nowait(data) raises QueueFull
QueueFull(q) == Len(q) >= SUBSCRIBER_QUEUE_SIZE

\* _safe_put that gives up on a full queue
_safe_put_drop_new(q, data) ==
    IF ~QueueFull(q) THEN Append(q, data) ELSE q

\* _safe_put: on QueueFull the oldest item is taken out and the put repeated;
\* should the queue be empty then (QueueEmpty), the event is dropped
_safe_put(q, data) ==
    IF ~QueueFull(q) THEN Append(q, data)
    ELSE IF q = <<>> THEN q
    ELSE Append(Tail(q), data)

\* the queues in the list self._subscribers
Subscribed == {subscribers[i] : i \in 1..Len(subscribers)}

\* self._subscribers.remove(queue): the first occurrence is taken out
Remove(list, queue) ==
    LET i == Min({k \in 1..Len(list) : list[k] = queue})
    IN  SubSeq(list, 1, i - 1) \o SubSeq(list, i + 1, Len(list))

\* subscribe(): the context is entered, a new queue joins the list
subscribe(queue) ==
    /\ sub_pc[queue] = "new"
    /\ \A k \in QueueIds : k < queue => sub_pc[k] # "new"
    /\ subscribers' = Append(subscribers, queue)
    /\ sub_pc' = [sub_pc EXCEPT ![queue] = "in"]
    /\ since' = [since EXCEPT ![queue] = nevents]
    /\ UNCHANGED <<queues, nevents, last>>

\* a subscribe() context whose removal is skipped when the consumer did not
\* leave the block normally (no try/finally)
subscribe_exit_no_finally(queue, how) ==
    /\ sub_pc[queue] = "in"
    /\ subscribers' = IF how = "normal" THEN Remove(subscribers, queue)
                      ELSE subscribers
    /\ sub_pc' = [sub_pc EXCEPT ![queue] = how]
    /\ UNCHANGED <<queues, nevents, since, last>>

\* the context is left: normally, by an exception of the consumer, or by its
\* cancellation (client disconnect); the finally block removes the queue
subscribe_exit(queue, how) ==
    /\ sub_pc[queue] = "in"
    /\ subscribers' = Remove(subscribers, queue)
    /\ sub_pc' = [sub_pc EXCEPT ![queue] = how]
    /\ UNCHANGED <<queues, nevents, since, last>>

\* the position of the first full queue in the list, 0 if there is none
FirstFull ==
    LET full == {i \in 1..Len(subscribers) :
                    QueueFull(queues[subscribers[i]])}
    IN  IF full = {} THEN 0 ELSE Min(full)

\* emit that stops at the first subscriber whose queue is full
emit_until_full ==
    /\ nevents < MaxEvents
    /\ nevents' = nevents + 1
    /\ queues' = [k \in QueueIds |->
                     IF \E i \in 1..Len(subscribers) :
                           /\ subscribers[i] = k
                           /\ FirstFull = 0 \/ i < FirstFull
                     THEN _safe_put(queues[k], nevents + 1)
                     ELSE queues[k]]
    /\ UNCHANGED <<subscribers, sub_pc, since, last>>

\* emit(event): the event is put on every queue of a copy of the list
emit ==
    /\ nevents < MaxEvents
    /\ nevents' = nevents + 1
    /\ queues' = [k \in QueueIds |->
                     IF k \in Subscribed
                     THEN _safe_put(queues[k], nevents + 1)
                     ELSE queues[k]]
    /\ UNCHANGED <<subscribers, sub_pc, since, last>>

\* a consumer that reads the oldest item and leaves it on the queue
Consume_peek(queue) ==
    /\ sub_pc[queue] = "in"
    /\ queues[queue] # <<>>
    /\ last' = [last EXCEPT ![queue] = Head(queues[queue])]
    /\ UNCHANGED <<subscribers, queues, nevents, sub_pc, since>>

\* the consumer inside the context takes the oldest item: await queue.get()
Consume(queue) ==
    /\ sub_pc[queue] = "in"
    /\ queues[queue] # <<>>
    /\ last' = [last EXCEPT ![queue] = Head(queues[queue])]
    /\ queues' = [queues EXCEPT ![queue] = Tail(@)]
    /\ UNCHANGED <<subscribers, nevents, sub_pc, since>>

InitBus ==
    /\ subscribers = <<>>
    /\ queues = [k \in QueueIds |-> <<>>]
    /\ nevents = 0
    /\ sub_pc = [k \in QueueIds |-> "new"]
    /\ since = [k \in QueueIds |-> 0]
    /\ last = [k \in QueueIds |-> 0]

\* ------------------------------------------------ Python float arithmetic
\* A float is an IEEE 754 binary64 number; the ones here are never negative.
\* [m |-> bits, e |-> n] stands for the number whose binary digits, most
\* significant first, are m, times 2^e; m has no zero at either end and at
\* most Precision digits, and zero is [m |-> <<>>, e |-> 0].
Precision == 53

\* the arithmetic on the binary digits is done DigitBits of them at a time
DigitBits == 12
Base == 2 ^ DigitBits

\* more binary digits than any whole-number divisor used here has
DivisorBits == 9

Bits(m, e) == [m |-> m, e |-> e]

Zeros(n) == [i \in 1..n |-> 0]

PadTo(m, n) == Zeros(n - Len(m)) \o m

Ones(m) == {i \in 1..Len(m) : m[i] = 1}

First(S) == CHOOSE i \in S : \A j \in S : i <= j
Last(S) == CHOOSE i \in S : \A j \in S : j <= i

StripLeading(m) ==
    IF Ones(m) = {} THEN <<>> ELSE SubSeq(m, First(Ones(m)), Len(m))

\* the number m * 2^e in its one form: no zero digit at either end
Norm(m, e) ==
    IF Ones(m) = {} THEN Bits(<<>>, 0)
    ELSE Bits(SubSeq(m, First(Ones(m)), Last(Ones(m))),
              e + Len(m) - Last(Ones(m)))

\* the number written by the binary digits lo..hi of m
RECURSIVE Value(_, _, _)
Value(m, lo, hi) ==
    IF lo > hi THEN 0
    ELSE IF lo = hi THEN m[lo]
    ELSE Value(m, lo, (lo + hi) \div 2) * 2 ^ (hi - (lo + hi) \div 2)
            + Value(m, (lo + hi) \div 2 + 1, hi)

\* m in digits of base Base, and back
Digits(m) ==
    LET n == (Len(m) + DigitBits - 1) \div DigitBits
    IN  [j \in 1..n |-> Value(PadTo(m, n * DigitBits),
                              (j - 1) * DigitBits + 1, j * DigitBits)]

BitsOf(ds) ==
    [i \in 1..(Len(ds) * DigitBits) |->
        (ds[(i - 1) \div DigitBits + 1]
            \div 2 ^ (DigitBits - 1 - ((i - 1) % DigitBits))) % 2]

\* a + b + carry for digit sequences of one length, from digit i down
RECURSIVE AddFrom(_, _, _, _)
AddFrom(a, b, i, carry) ==
    IF i = 0 THEN <<carry>>
    ELSE Append(AddFrom(a, b, i - 1, (a[i] + b[i] + carry) \div Base),
                (a[i] + b[i] + carry) % Base)

\* a * k + carry, from digit i down
RECURSIVE MulFrom(_, _, _, _)
MulFrom(a, k, i, carry) ==
    IF i = 0 THEN <<carry>>
    ELSE Append(MulFrom(a, k, i - 1, (a[i] * k + carry) \div Base),
                (a[i] * k + carry) % Base)

\* long division of a by k from digit i on, rem carried in: the digits of
\* the quotient and the remainder
RECURSIVE DivFrom(_, _, _, _)
DivFrom(a, k, i, rem) ==
    IF i > Len(a) THEN [q |-> <<>>, r |-> rem]
    ELSE LET rest == DivFrom(a, k, i + 1, (Base * rem + a[i]) % k)
         IN  [q |-> <<(Base * rem + a[i]) \div k>> \o rest.q, r |-> rest.r]

\* the binary digits of m + n, of m * k, and of m / k with its remainder
Sum(m, n) ==
    LET w == IF Len(m) < Len(n) THEN Len(n) ELSE Len(m)
        a == Digits(PadTo(m, w))
        b == Digits(PadTo(n, w))
    IN  BitsOf(AddFrom(a, b, Len(a), 0))

Product(m, k) == BitsOf(MulFrom(Digits(m), k, Len(Digits(m)), 0))

Quotient(m, k) ==
    LET d == DivFrom(Digits(m), k, 1, 0) IN [q |-> BitsOf(d.q), r |-> d.r]

\* the binary digits of x with its exponent brought down to e
AtExponent(x, e) == x.m \o Zeros(x.e - e)

\* exact comparison of two numbers
Less(x, y) ==
    LET e == IF x.e < y.e THEN x.e ELSE y.e
        n == Len(x.m) + Len(y.m) + (x.e - e) + (y.e - e)
        a == PadTo(AtExponent(x, e), n)
        b == PadTo(AtExponent(y, e), n)
    IN  \E i \in 1..n : /\ a[i] < b[i]
                        /\ \A j \in 1..(i - 1) : a[j] = b[j]

\* the float nearest to m * 2^e (plus a little, if sticky), ties to even
Round(m, e, sticky) ==
    IF Len(m) <= Precision THEN Norm(m, e)
    ELSE LET keep == SubSeq(m, 1, Precision)
             rest == SubSeq(m, Precision + 2, Len(m))
             more == sticky \/ \E i \in 1..Len(rest) : rest[i] = 1
             up   == m[Precision + 1] = 1 /\ (more \/ keep[Precision] = 1)
         IN  Norm(IF up THEN Sum(keep, <<1>>) ELSE keep,
                  e + Len(m) - Precision)

\* float(n) for a whole number n, 0 <= n < Base
float(n) == Norm(BitsOf(<<n>>), 0)

\* exact k * x
Times(k, x) == Norm(Product(x.m, k), x.e)

\* x * k in floats, k a whole number
FMul(x, k) == Round(Times(k, x).m, Times(k, x).e, FALSE)

\* x / k in floats, k a whole number > 0
FDiv(x, k) ==
    LET z == Precision + DivisorBits - Len(x.m)
        d == Quotient(x.m \o Zeros(z), k)
    IN  Round(StripLeading(d.q), x.e - z, d.r # 0)

\* x + y in floats
FAdd(x, y) ==
    LET e == IF x.e < y.e THEN x.e ELSE y.e
    IN  Round(StripLeading(Sum(AtExponent(x, e), AtExponent(y, e))),
              e, FALSE)

FMin(x, y) == IF Less(y, x) THEN y ELSE x
FMax(x, y) == IF Less(x, y) THEN y ELSE x

\* --------------------------------------------------------- discography.py
\* a run that has not begun
NoDisco == [pc |-> "none", total |-> 0, index |-> 0, completed |-> 0,
            errors |-> <<>>, success |-> FALSE]

\* one entry of the errors list: the release (0-based) and what it did
Error(index, how) == [release |-> index, how |-> how]

\* DiscographyResult with success not looking at the token
DiscoResult_any(d, is_cancelled) ==
    [d EXCEPT !.pc = "returned", !.success = d.completed > 0]

\* DiscographyResult as run() builds it at its end
DiscoResult(d, is_cancelled) ==
    [d EXCEPT !.pc = "returned",
              !.success = d.completed > 0 /\ ~is_cancelled]

\* run() goes back to the awaiting _run_job task with its result
DiscoReturns(job_id, d, q) ==
    /\ disco' = [disco EXCEPT ![job_id] = d]
    /\ pc' = [pc EXCEPT ![job_id] = IF d.success THEN "ok" ELSE "fail"]
    /\ loopq' = Append(q, Callback("wake", job_id, NoStatus))

\* run() up to the for loop: the plan is collected; an empty plan returns
\* failure with one error and reports nothing; else FETCHING_INFO is
\* reported with 0 percent
DiscoBegin(job_id, total) ==
    /\ pc[job_id] = "run"
    /\ disco[job_id].pc = "none"
    /\ emitted[job_id] = 0
    /\ Relays < MaxRelays
    /\ IF total = 0
       THEN DiscoReturns(job_id,
                         [NoDisco EXCEPT !.pc = "returned",
                                         !.errors = <<Error(0, "empty")>>],
                         loopq)
       ELSE /\ disco' = [disco EXCEPT ![job_id] =
                            [NoDisco EXCEPT !.pc = "loop", !.total = total]]
            /\ loopq' = on_progress(loopq, job_id, FETCHING_INFO)
            /\ UNCHANGED pc
    /\ UNCHANGED <<jvars, bvars, svars, mvars, job_store, cancel_tokens,
                   cancelled, emitted, cret, pipeline, events, pvars>>

\* the for loop going on to the next release without looking at the token
DiscoNext_no_check(job_id) ==
    /\ disco[job_id].pc = "loop"
    /\ IF disco[job_id].index = disco[job_id].total
       THEN DiscoReturns(job_id,
                         [disco[job_id] EXCEPT !.pc = "returned",
                              !.success = disco[job_id].completed > 0
                                             /\ job_id \notin cancelled],
                         loopq)
       ELSE /\ disco' = [disco EXCEPT ![job_id].pc = "release"]
            /\ UNCHANGED <<pc, loopq>>
    /\ UNCHANGED <<jvars, bvars, svars, mvars, job_store, cancel_tokens,
                   cancelled, emitted, cret, pipeline, events, pvars>>

\* the head of the for loop: after the last release, or when the token is
\* set, run() returns its result; else the next release's pipeline starts
DiscoNext(job_id) ==
    /\ disco[job_id].pc = "loop"
    /\ IF disco[job_id].index = disco[job_id].total \/ job_id \in cancelled
       THEN DiscoReturns(job_id,
                         DiscoResult(disco[job_id], job_id \in cancelled),
                         loopq)
       ELSE /\ disco' = [disco EXCEPT ![job_id].pc = "release"]
            /\ UNCHANGED <<pc, loopq>>
    /\ UNCHANGED <<jvars, bvars, svars, mvars, job_store, cancel_tokens,
                   cancelled, emitted, cret, pipeline, events, pvars>>

\* the release's pipeline enters its next phase and reports it through the
\* callback of _wrap_progress_callback, which passes the step on unchanged
ReleaseEmit(job_id, n) ==
    /\ disco[job_id].pc = "release"
    /\ n = emitted[job_id] + 1
    /\ Relays < MaxRelays
    /\ emitted' = [emitted EXCEPT ![job_id] = n]
    /\ loopq' = on_progress(loopq, job_id, ProgressStep[n])
    /\ UNCHANGED <<jvars, bvars, svars, dvars, mvars, job_store, cancel_tokens,
                   cancelled, pc, cret>>

\* the body of the for loop after a release that aborts the whole run
ReleaseDone_abort(d, outcome) ==
    IF outcome = "ok"
    THEN [d EXCEPT !.pc = "loop", !.index = @ + 1, !.completed = @ + 1]
    ELSE [d EXCEPT !.pc = "loop", !.index = d.total,
                   !.errors = Append(@, Error(d.index, outcome))]

\* the body of the for loop after sync_service.run: a release that raised
\* or failed adds one error, one that succeeded is counted
ReleaseDone(d, outcome) ==
    IF outcome = "ok"
    THEN [d EXCEPT !.pc = "loop", !.index = @ + 1, !.completed = @ + 1]
    ELSE [d EXCEPT !.pc = "loop", !.index = @ + 1,
                   !.errors = Append(@, Error(d.index, outcome))]

\* the release's pipeline ends: after its three phases it reports COMPLETED
\* and returns success; in any phase it reports FAILED and returns failure,
\* or raises
ReleaseReturn(job_id, outcome) ==
    /\ disco[job_id].pc = "release"
    /\ outcome = "ok" => emitted[job_id] = 3
    /\ disco' = [disco EXCEPT ![job_id] = ReleaseDone(@, outcome)]
    /\ emitted' = [emitted EXCEPT ![job_id] = 0]
    /\ loopq' = IF outcome = "ok"
                   THEN on_progress(loopq, job_id, COMPLETED)
                ELSE IF outcome = "fail"
                   THEN on_progress(loopq, job_id, FAILED)
                ELSE loopq
    /\ UNCHANGED <<jvars, bvars, svars, mvars, job_store, cancel_tokens,
                   cancelled, pc, cret, pipeline, events, pvars>>

\* _scale_progress: the progress of release index of total, as a share of
\* the whole run; max(value, 0.0) leaves a value that is never negative
_scale_progress(index, total, percent) ==
    IF total <= 0 \/ percent = NoProgress THEN percent
    ELSE FMin(FMax(FAdd(FMul(FDiv(float(index), total), 100),
                        FDiv(percent, total)),
                   float(0)),
              float(100))

\* one call of _scale_progress
ScaleCall ==
    /\ ~scale.done
    /\ scale' = [scale EXCEPT
                    !.done = TRUE,
                    !.value = _scale_progress(scale.index, scale.total,
                                              scale.percent)]
    /\ UNCHANGED <<jvars, xvars, bvars, svars, disco, pipeline, events, prog,
                   stream>>

\* the progress values a release's pipeline reports
Percents == {float(0), float(10), float(50), float(90), float(100)}

\* a discography run that has not begun: relayed is the last progress value
\* given to on_progress, progress is the Job's progress
NoRun == [pc |-> "none", total |-> 0, index |-> 0, reported |-> NoProgress,
          relayed |-> float(0), progress |-> float(0)]

\* run() with a plan of total releases, up to the for loop: FETCHING_INFO
\* is reported with 0.0, and the relayed transition sets the Job's progress
RunBegin(total) ==
    /\ prog.pc = "none"
    /\ prog' = [NoRun EXCEPT !.pc = "run", !.total = total]
    /\ UNCHANGED <<jvars, xvars, bvars, svars, disco, pipeline, events, scale,
                   stream>>

\* the Job's progress after a transition that names this progress
SetProgress(old, progress) == IF progress = NoProgress THEN old ELSE progress

\* _inner: the release in hand reports percent, not less than what it
\* reported before; the scaled value goes to on_progress, which skips an
\* event with a terminal step and relays every other one to the store
_inner(percent, terminal) ==
    /\ prog.pc = "run"
    /\ percent # NoProgress /\ prog.reported # NoProgress
          => ~Less(percent, prog.reported)
    /\ LET scaled == _scale_progress(prog.index, prog.total, percent)
       IN  prog' = [prog EXCEPT
                       !.reported = SetProgress(@, percent),
                       !.relayed = SetProgress(@, scaled),
                       !.progress = IF terminal THEN @
                                    ELSE SetProgress(@, scaled)]
    /\ UNCHANGED <<jvars, xvars, bvars, svars, disco, pipeline, events, scale,
                   stream>>

\* the for loop goes on to the next release, or ends after the last one
NextRelease ==
    /\ prog.pc = "run"
    /\ prog' = IF prog.index + 1 < prog.total
               THEN [prog EXCEPT !.index = @ + 1, !.reported = NoProgress]
               ELSE [prog EXCEPT !.pc = "returned"]
    /\ UNCHANGED <<jvars, xvars, bvars, svars, disco, pipeline, events, scale,
                   stream>>

InitProgress ==
    /\ prog = NoRun
    /\ scale = [index |-> 0, total |-> 0, percent |-> NoProgress,
                value |-> NoProgress, done |-> TRUE]

InitDisco == disco = [j \in RunIds |-> NoDisco]

\* ------------------------------------------------- yubal/services/sync.py
\* ProgressEvent(step, progress); NoProgress stands for progress=None
Event(step, progress) == [step |-> step, progress |-> progress]

Kinds == {"album", "playlist"}

Tracks == 1..MaxTracks

\* the per-track progress the downloader reports: a track begun, a track
\* finished, or no progress value
TrackProgress == {float(0), float(50), float(100), NoProgress}

\* the pipeline returns a SyncResult
Returns(evs, success) ==
    /\ events' = events \o evs
    /\ pipeline' = [pipeline EXCEPT !.pc = "returned", !.success = success]

\* the pipeline goes on to its next phase
Enters(evs, phase) ==
    /\ events' = events \o evs
    /\ pipeline' = [pipeline EXCEPT !.pc = phase]

\* sync_album / sync_playlist up to the call that fetches the info
sync_start(kind) ==
    /\ pipeline.pc = "idle"
    /\ events' = <<Event(FETCHING_INFO, float(0))>>
    /\ pipeline' = [pipeline EXCEPT !.pc = "fetch", !.kind = kind]
    /\ UNCHANGED <<disco, pvars>>

\* the cancel_check callable starts to return True
SetCancel ==
    /\ pipeline.pc # "returned"
    /\ ~pipeline.cancel
    /\ pipeline' = [pipeline EXCEPT !.cancel = TRUE]
    /\ UNCHANGED <<disco, events, pvars>>

\* the fetch-info phase ends; sync_album goes straight on to the download,
\* sync_playlist first looks at cancel_check
FetchDone(ok, tracks) ==
    /\ pipeline.pc = "fetch"
    /\ IF ~ok
       THEN Returns(IF pipeline.kind = "album"
                    THEN <<Event(FAILED, NoProgress)>> ELSE <<>>, FALSE)
       ELSE IF pipeline.kind = "playlist" /\ pipeline.cancel
       THEN Returns(<<Event(FETCHING_INFO, float(10))>>, FALSE)
       ELSE /\ events' = events \o <<Event(FETCHING_INFO, float(10)),
                                     Event(DOWNLOADING, float(10))>>
            /\ pipeline' = [pipeline EXCEPT !.pc = "download",
                                            !.total_tracks = tracks]
    /\ UNCHANGED <<disco, pvars>>

\* the share of the download phase: 80 points for an album, 50 for a
\* playlist
DownloadRange == IF pipeline.kind = "album" THEN 80 ELSE 50

\* download_progress_wrapper: the downloader reports on one track; the
\* track index comes from the event's details and is not compared with
\* total_tracks
DownloadProgress(track_idx, track_progress) ==
    /\ pipeline.pc = "download"
    /\ Len(events) < 3 + MaxTrackEvents
    /\ events' = Append(events,
          IF track_progress = NoProgress
          THEN Event(DOWNLOADING, NoProgress)
          ELSE Event(DOWNLOADING,
                     FAdd(float(10),
                          FMul(FDiv(FAdd(float(track_idx),
                                         FDiv(track_progress, 100)),
                                    pipeline.total_tracks),
                               DownloadRange))))
    /\ UNCHANGED <<disco, pipeline, pvars>>

\* sync_album / sync_playlist treating a cancelled download as a failed one
DownloadDone_cancel_fails(outcome) ==
    /\ pipeline.pc = "download"
    /\ outcome = "cancelled" => pipeline.cancel
    /\ IF outcome = "ok"
       THEN Enters(<<Event(DOWNLOADING, float(10 + DownloadRange)),
                     Event(IMPORTING, float(10 + DownloadRange))>>, "import")
       ELSE IF outcome \in {"raise", "cancelled"}
               \/ (outcome = "fail" /\ pipeline.kind = "album")
       THEN Returns(<<Event(FAILED, NoProgress)>>, FALSE)
       ELSE Returns(<<>>, FALSE)
    /\ UNCHANGED <<disco, pvars>>

\* download_album returns or raises; the downloader reports cancelled only
\* if cancel_check returned True; no look at cancel_check follows
DownloadDone(outcome) ==
    /\ pipeline.pc = "download"
    /\ outcome = "cancelled" => pipeline.cancel
    /\ IF outcome = "ok"
       THEN Enters(<<Event(DOWNLOADING, float(10 + DownloadRange)),
                     Event(IMPORTING, float(10 + DownloadRange))>>, "import")
       ELSE IF outcome = "raise"
               \/ (outcome = "fail" /\ pipeline.kind = "album")
       THEN Returns(<<Event(FAILED, NoProgress)>>, FALSE)
       ELSE Returns(<<>>, FALSE)
    /\ UNCHANGED <<disco, pvars>>

\* the tag/import phase ends: a failed tag_album fails the album, a failed
\* tag_playlist is not fatal; an exception fails both
ImportDone(outcome) ==
    /\ pipeline.pc = "import"
    /\ IF outcome = "raise" \/ (outcome = "fail" /\ pipeline.kind = "album")
       THEN Returns(<<Event(FAILED, NoProgress)>>, FALSE)
       ELSE IF pipeline.kind = "album"
       THEN Returns(<<Event(COMPLETED, float(100))>>, TRUE)
       ELSE Returns(<<Event(IMPORTING, float(70)), Event(IMPORTING, float(70)),
                      Event(IMPORTING, float(75)), Event(IMPORTING, float(75)),
                      Event(IMPORTING, float(90)), Event(IMPORTING, float(90)),
                      Event(COMPLETED, float(100))>>, TRUE)
    /\ UNCHANGED <<disco, pvars>>

InitSync ==
    /\ pipeline = [kind |-> "album", pc |-> "idle", cancel |-> FALSE,
                   total_tracks |-> 1, success |-> FALSE]
    /\ events = <<>>

\* ------------------------------------------------- app/api/routes/sync.py
\* None, which run_sync puts on the queue to signal completion
Sentinel == 0

\* what the response has sent: a "data" item carries a progress event, the
\* "complete" item carries the result
DataItem(event) == [kind |-> "data", event |-> event]
CompleteItem == [kind |-> "complete", event |-> Sentinel]

\* a request that has not called event_generator yet
NoStream ==
    [gen |-> "new", task |-> "none", result |-> NoStatus, queue |-> <<>>,
     sent |-> <<>>, emitted |-> 0, idle |-> FALSE]

InitStream == stream = NoStream

\* event_generator is entered: the queue is made and create_task(run_sync())
\* starts the service's sync_album in a worker thread
event_generator ==
    /\ stream.gen = "new"
    /\ stream' = [stream EXCEPT !.gen = "loop", !.task = "thread"]
    /\ UNCHANGED <<jvars, xvars, bvars, svars, disco, pipeline, events, scale,
                   prog>>

\* the pipeline emits its next event: progress_callback puts it on the queue
progress_callback ==
    /\ stream.task = "thread"
    /\ stream.emitted < MaxStreamEvents
    /\ stream' = [stream EXCEPT !.emitted = @ + 1,
                                !.queue = Append(@, stream.emitted + 1)]
    /\ UNCHANGED <<jvars, xvars, bvars, svars, disco, pipeline, events, scale,
                   prog>>

\* sync_album returns its result, a success or a failure, in the thread
sync_album_returns(success) ==
    /\ stream.task = "thread"
    /\ stream' = [stream EXCEPT
                     !.task = "returned",
                     !.result = IF success THEN "success" ELSE "failure"]
    /\ UNCHANGED <<jvars, xvars, bvars, svars, disco, pipeline, events, scale,
                   prog>>

\* SyncService(...) or sync_album raises: the exception leaves run_sync at
\* its await, so the line that puts None is not reached
sync_album_raises ==
    /\ stream.task = "thread"
    /\ stream' = [stream EXCEPT !.task = "raised"]
    /\ UNCHANGED <<jvars, xvars, bvars, svars, disco, pipeline, events, scale,
                   prog>>

\* run_sync resumes after to_thread: it puts None and returns the result
run_sync ==
    /\ stream.task = "returned"
    /\ stream' = [stream EXCEPT !.task = "done",
                                !.queue = Append(@, Sentinel)]
    /\ UNCHANGED <<jvars, xvars, bvars, svars, disco, pipeline, events, scale,
                   prog>>

\* the loop's queue.get() returns an item: None breaks the loop, an event
\* is sent as a data item
queue_get ==
    /\ stream.gen = "loop"
    /\ stream.queue # <<>>
    /\ LET event == Head(stream.queue)
       IN  stream' = IF event = Sentinel
                     THEN [stream EXCEPT !.queue = Tail(@),
                                         !.gen = "await_task"]
                     ELSE [stream EXCEPT !.queue = Tail(@),
                                         !.sent = Append(@, DataItem(event)),
                                         !.idle = FALSE]
    /\ UNCHANGED <<jvars, xvars, bvars, svars, disco, pipeline, events, scale,
                   prog>>

\* wait_for times out after one second: a keepalive comment is sent and the
\* loop continues; an item put by the thread meanwhile stays on the queue
keepalive ==
    /\ stream.gen = "loop"
    /\ stream' = [stream EXCEPT !.idle = TRUE]
    /\ UNCHANGED <<jvars, xvars, bvars, svars, disco, pipeline, events, scale,
                   prog>>

\* after the loop: result = await task, then the complete event is sent and
\* the generator ends
await_task ==
    /\ stream.gen = "await_task"
    /\ stream.task = "done"
    /\ stream' = [stream EXCEPT !.gen = "ended",
                                !.sent = Append(@, CompleteItem)]
    /\ UNCHANGED <<jvars, xvars, bvars, svars, disco, pipeline, events, scale,
                   prog>>

\* ------------------------------------------------------- sync_scheduler.py
TaskIds == 1..MaxStarts

PlaylistIds == 1..MaxPlaylists

\* config.interval_minutes * 60, in units of the loop's clock
Intervals == 1..MaxInterval

\* task.done()
Done == {"finished", "cancelled", "crashed"}

\* is_running
is_running == task # NoId /\ loop_pc[task] \notin Done

\* a loop task that is not inside an iteration
NoIter == [enabled |-> FALSE, interval |-> 0, event |-> NoId, waited |-> 0]

\* SyncRepository.get_config as _run_loop uses it, and the Event it waits on
Iteration == [enabled |-> config.enabled, interval |-> config.interval,
              event |-> stop_event, waited |-> 0]

\* start() without the is_running test
start_unguarded ==
    /\ \E t \in TaskIds :
          /\ loop_pc[t] = "none"
          /\ \A k \in TaskIds : k < t => loop_pc[k] # "none"
          /\ stop_event' = t
          /\ task' = t
          /\ loop_pc' = [loop_pc EXCEPT ![t] = "created"]
    /\ UNCHANGED <<event_set, must_cancel, awaiting, stopped, synced, config,
                   iter, playlists>>

\* start(): unless a loop is running, a new Event and a new loop task
start ==
    /\ ~is_running
    /\ \E t \in TaskIds :
          /\ loop_pc[t] = "none"
          /\ \A k \in TaskIds : k < t => loop_pc[k] # "none"
          /\ stop_event' = t
          /\ task' = t
          /\ loop_pc' = [loop_pc EXCEPT ![t] = "created"]
    /\ UNCHANGED <<event_set, must_cancel, awaiting, stopped, synced, config,
                   iter, playlists>>

\* start() while a loop is running: a warning, nothing else
start_running ==
    /\ is_running
    /\ UNCHANGED svars

\* JobStore.create as the scheduler uses it: None ("queue full") when the
\* store is at capacity and holds no terminal Job to evict, else the oldest
\* terminal Job is evicted if need be and a new PENDING Job is created
StoreFull(s) == Cardinality(DOMAIN s.jobs) >= MAX_JOBS

Terminal(s) == {k \in DOMAIN s.jobs : is_finished(s.jobs[k].status)}

Evict(s) ==
    IF StoreFull(s)
    THEN [s EXCEPT !.jobs = [k \in DOMAIN s.jobs \ {Min(Terminal(s))} |->
                                s.jobs[k]]]
    ELSE s

create(s) ==
    IF StoreFull(s) /\ Terminal(s) = {}
    THEN [store |-> s, id |-> NoId]
    ELSE [store |-> StoreCreate(Evict(s)), id |-> Evict(s).next]

\* SyncRepository.list_enabled_playlists: the enabled playlists, in id order
RECURSIVE InIdOrder(_)
InIdOrder(ids) ==
    IF ids = {} THEN <<>>
    ELSE <<Min(ids)>> \o InIdOrder(ids \ {Min(ids)})

list_enabled_playlists(pl) == InIdOrder({p \in PlaylistIds : pl[p].enabled})

\* what one run of _sync_all_enabled has done so far: the store, the
\* playlists, the job_ids list and the playlists create was called for
SyncState(s, pl) == [store |-> s, playlists |-> pl, job_ids |-> <<>>,
                     calls |-> <<>>]

\* the body of the for loop of _sync_all_enabled for one playlist
SyncOne(acc, p, t) ==
    LET result == create(acc.store)
    IN  IF result.id = NoId
        THEN [acc EXCEPT !.calls = Append(@, p)]
        ELSE [store |-> result.store,
              playlists |-> [acc.playlists EXCEPT
                                ![p].last_job_id = result.id,
                                ![p].last_sync_at = t],
              job_ids |-> Append(acc.job_ids, result.id),
              calls |-> Append(acc.calls, p)]

\* the for loop leaving at the first playlist the store rejects
RECURSIVE SyncUntilFull(_, _, _)
SyncUntilFull(todo, acc, t) ==
    IF todo = <<>> THEN acc
    ELSE IF create(acc.store).id = NoId
    THEN [acc EXCEPT !.calls = Append(@, Head(todo))]
    ELSE SyncUntilFull(Tail(todo), SyncOne(acc, Head(todo), t), t)

\* the for loop of _sync_all_enabled over the playlists still to do
RECURSIVE SyncEach(_, _, _)
SyncEach(todo, acc, t) ==
    IF todo = <<>> THEN acc
    ELSE SyncEach(Tail(todo), SyncOne(acc, Head(todo), t), t)

\* _sync_all_enabled at wall-clock time t
_sync_all_enabled(s, pl, t) ==
    SyncEach(list_enabled_playlists(pl), SyncState(s, pl), t)

\* sync_all: the manual trigger
sync_all ==
    LET r == _sync_all_enabled(job_store, playlists, now)
    IN  /\ job_store' = r.store
        /\ playlists' = r.playlists
        /\ UNCHANGED <<task, stop_event, event_set, loop_pc, must_cancel,
                       awaiting, stopped, synced, config, iter>>

\* the loop task at "while not self._stop_event.is_set()": it ends if the
\* Event is set, fails if _stop_event is None, and otherwise reads the
\* config and waits for the Event or the interval
LoopTop(t) ==
    IF stop_event = NoId
    THEN /\ loop_pc' = [loop_pc EXCEPT ![t] = "crashed"]
         /\ iter' = [iter EXCEPT ![t] = NoIter]
    ELSE IF stop_event \in event_set
    THEN /\ loop_pc' = [loop_pc EXCEPT ![t] = "finished"]
         /\ iter' = [iter EXCEPT ![t] = NoIter]
    ELSE /\ loop_pc' = [loop_pc EXCEPT ![t] = "waiting"]
         /\ iter' = [iter EXCEPT ![t] = Iteration]

\* the loop task ends by CancelledError or by an exception
LoopEnds(t, how) ==
    /\ loop_pc' = [loop_pc EXCEPT ![t] = how]
    /\ iter' = [iter EXCEPT ![t] = NoIter]

\* the first step of _run_loop, or its cancellation before it ever ran
LoopStart(t) ==
    /\ loop_pc[t] = "created"
    /\ IF t \in must_cancel THEN LoopEnds(t, "cancelled") ELSE LoopTop(t)
    /\ UNCHANGED <<task, stop_event, event_set, must_cancel, awaiting,
                   stopped, synced, config, playlists>>

\* wait_for that returns at once
NoWait(t) == TRUE

\* wait_for returns or raises: the task was cancelled, the Event is set or
\* the interval is over
WaitOver(t) ==
    \/ t \in must_cancel
    \/ iter[t].event \in event_set
    \/ iter[t].waited >= iter[t].interval

\* the loop task resumes from wait_for: CancelledError ends it; otherwise
\* it syncs if the config it read was enabled and the Event is not set, and
\* goes round the loop
LoopWake(t) ==
    /\ loop_pc[t] = "waiting"
    /\ WaitOver(t)
    /\ IF t \in must_cancel
       THEN /\ LoopEnds(t, "cancelled")
            /\ UNCHANGED <<synced, playlists, job_store>>
       ELSE IF ~iter[t].enabled
       THEN /\ LoopTop(t)
            /\ UNCHANGED <<synced, playlists, job_store>>
       ELSE IF stop_event = NoId
       THEN /\ LoopEnds(t, "crashed")
            /\ UNCHANGED <<synced, playlists, job_store>>
       ELSE IF stop_event \in event_set
       THEN /\ LoopTop(t)
            /\ UNCHANGED <<synced, playlists, job_store>>
       ELSE LET r == _sync_all_enabled(job_store, playlists, now)
            IN  /\ synced[t] < MaxSyncs
                /\ synced' = [synced EXCEPT ![t] = @ + 1]
                /\ job_store' = r.store
                /\ playlists' = r.playlists
                /\ LoopTop(t)
    /\ UNCHANGED <<task, stop_event, event_set, must_cancel, awaiting,
                   stopped, config>>

\* get_config raises in the first iteration: nothing in _run_loop catches
\* the exception and the loop task ends with it
LoopStartRaises(t) ==
    /\ loop_pc[t] = "created"
    /\ t \notin must_cancel
    /\ stop_event # NoId
    /\ stop_event \notin event_set
    /\ LoopEnds(t, "crashed")
    /\ UNCHANGED <<task, stop_event, event_set, must_cancel, awaiting,
                   stopped, synced, config, playlists>>

\* the loop task resumes from wait_for and an exception ends it: in
\* _sync_all_enabled after k playlists were done (in list_enabled_playlists
\* or create, or, with created, in update_playlist after create has made
\* the Job), or in the get_config of the next iteration
LoopWakeRaises(t, k, created) ==
    /\ loop_pc[t] = "waiting"
    /\ WaitOver(t)
    /\ t \notin must_cancel
    /\ stop_event # NoId
    /\ stop_event \notin event_set
    /\ IF iter[t].enabled
       THEN LET todo == list_enabled_playlists(playlists)
                r == SyncEach(SubSeq(todo, 1, k),
                              SyncState(job_store, playlists), now)
            IN  /\ k \in 0..Len(todo)
                /\ created => k < Len(todo)
                /\ synced[t] < MaxSyncs
                /\ synced' = [synced EXCEPT ![t] = @ + 1]
                /\ job_store' = IF created THEN create(r.store).store
                                ELSE r.store
                /\ playlists' = r.playlists
       ELSE /\ k = 0
            /\ ~created
            /\ UNCHANGED <<synced, playlists, job_store>>
    /\ LoopEnds(t, "crashed")
    /\ UNCHANGED <<task, stop_event, event_set, must_cancel, awaiting,
                   stopped, config>>

\* the loop's clock advances by one unit
SchedTick ==
    /\ \E t \in TaskIds :
          loop_pc[t] = "waiting" /\ iter[t].waited < iter[t].interval
    /\ iter' = [t \in TaskIds |->
                  IF loop_pc[t] = "waiting"
                         /\ iter[t].waited < iter[t].interval
                  THEN [iter[t] EXCEPT !.waited = @ + 1]
                  ELSE iter[t]]
    /\ UNCHANGED <<task, stop_event, event_set, loop_pc, must_cancel,
                   awaiting, stopped, synced, config, playlists>>

\* stop() that returns without the finally block when the task is done
stop_leaves_done ==
    IF task = NoId \/ stop_event = NoId
    THEN UNCHANGED svars
    ELSE /\ event_set' = event_set \cup {stop_event}
         /\ must_cancel' = IF loop_pc[task] \in Done THEN must_cancel
                           ELSE must_cancel \cup {task}
         /\ IF loop_pc[task] \in Done
            THEN UNCHANGED <<task, stop_event, stopped, awaiting>>
            ELSE /\ awaiting' = awaiting \cup {task}
                 /\ UNCHANGED <<task, stop_event, stopped>>
         /\ UNCHANGED <<loop_pc, synced, config, iter, playlists>>

\* SyncRepository.update_config, called by the routes
update_config(enabled, interval) ==
    /\ config' = [enabled |-> enabled, interval |-> interval]
    /\ config' # config
    /\ UNCHANGED <<task, stop_event, event_set, loop_pc, must_cancel,
                   awaiting, stopped, synced, iter, playlists>>

\* SyncRepository.update_playlist(id, enabled=...), called by the routes
update_playlist(p, enabled) ==
    /\ playlists[p].enabled # enabled
    /\ playlists' = [playlists EXCEPT ![p].enabled = enabled]
    /\ UNCHANGED <<task, stop_event, event_set, loop_pc, must_cancel,
                   awaiting, stopped, synced, config, iter>>

\* stop() that does not wait for the loop task
stop_no_wait ==
    IF task = NoId \/ stop_event = NoId
    THEN UNCHANGED svars
    ELSE /\ event_set' = event_set \cup {stop_event}
         /\ must_cancel' = IF loop_pc[task] \in Done THEN must_cancel
                           ELSE must_cancel \cup {task}
         /\ task' = NoId
         /\ stop_event' = NoId
         /\ stopped' = stopped \cup {task}
         /\ UNCHANGED <<awaiting, loop_pc, synced, config, iter, playlists>>

\* stop() up to "await self._task": nothing if there is no task or no
\* Event; else the Event is set and the task cancelled; a task that is
\* already done is not waited for and the finally block runs at once
stop ==
    IF task = NoId \/ stop_event = NoId
    THEN UNCHANGED svars
    ELSE /\ event_set' = event_set \cup {stop_event}
         /\ must_cancel' = IF loop_pc[task] \in Done THEN must_cancel
                           ELSE must_cancel \cup {task}
         /\ IF loop_pc[task] \in Done
            THEN /\ task' = NoId
                 /\ stop_event' = NoId
                 /\ stopped' = stopped \cup {task}
                 /\ UNCHANGED awaiting
            ELSE /\ awaiting' = awaiting \cup {task}
                 /\ UNCHANGED <<task, stop_event, stopped>>
         /\ UNCHANGED <<loop_pc, synced, config, iter, playlists>>

\* stop() from "await self._task" on: the awaited task is done, the finally
\* block clears _task and _stop_event, stop() returns
StopReturn(t) ==
    /\ t \in awaiting
    /\ loop_pc[t] \in Done
    /\ awaiting' = awaiting \ {t}
    /\ task' = NoId
    /\ stop_event' = NoId
    /\ stopped' = stopped \cup {t}
    /\ UNCHANGED <<event_set, loop_pc, must_cancel, synced, config, iter,
                   playlists>>

InitSched ==
    /\ task = NoId
    /\ stop_event = NoId
    /\ event_set = {}
    /\ loop_pc = [t \in TaskIds |-> "none"]
    /\ must_cancel = {}
    /\ awaiting = {}
    /\ stopped = {}
    /\ synced = [t \in TaskIds |-> 0]
    /\ config = [enabled |-> TRUE, interval |-> 1]
    /\ iter = [t \in TaskIds |-> NoIter]
    /\ playlists = [p \in PlaylistIds |->
                      [enabled |-> TRUE, last_job_id |-> NoId,
                       last_sync_at |-> NoTime]]

Init == InitJobs /\ InitExec /\ InitBus /\ InitSched /\ InitDisco
           /\ InitSync /\ InitProgress /\ InitStream

\* the arguments a caller passes along with a status: the error text with
\* FAILED, the start time with DOWNLOADING
ErrorFor(status) == IF status = FAILED THEN "error" ELSE NoError
StartFor(status) == IF status = DOWNLOADING THEN now ELSE NoTime

NextJobs ==
    \/ create_job /\ UNCHANGED <<xvars, bvars, svars, dvars>>
    \/ \E j \in JobIds : get_job(j) /\ UNCHANGED <<xvars, bvars, svars, dvars>>
    \/ get_all_jobs /\ UNCHANGED <<xvars, bvars, svars, dvars>>
    \/ get_active_job /\ UNCHANGED <<xvars, bvars, svars, dvars>>
    \/ \E j \in JobIds, s \in JobStatus \cup {NoStatus} :
          update_job(j, s, ErrorFor(s), StartFor(s), NoTime)
              /\ UNCHANGED <<xvars, bvars, svars, dvars>>
    \/ \E j \in JobIds : delete_job(j)
          /\ UNCHANGED <<xvars, bvars, svars, dvars>>
    \/ clear_completed /\ UNCHANGED <<xvars, bvars, svars, dvars>>
    \/ Tick /\ UNCHANGED <<xvars, bvars, svars, dvars>>

SpecJobs == Init /\ [][NextJobs]_vars

Next ==
    \/ Enqueue
    \/ \E j \in RunIds, c \in BOOLEAN : RunJobBegin(j, c)
    \/ \E j \in RunIds, n \in 1..3 : PipelineEmit(j, n)
    \/ ApplyRelay
    \/ \E j \in RunIds, o \in {"ok", "fail", "raise"} : PipelineReturn(j, o)
    \/ \E j \in RunIds, r \in BOOLEAN : RunJobEnd(j, r)
    \/ cancel_all_jobs
    \/ \E j \in RunIds : CancelRequest(j)
    \/ \E j \in RunIds, d \in TickSteps : GetJob(j, d)

Spec == Init /\ [][Next]_vars

\* the executor with direct cancel_job calls, no Job outliving the ceiling
NextCancel ==
    \/ Enqueue
    \/ \E j \in RunIds, c \in BOOLEAN : RunJobBegin(j, c)
    \/ \E j \in RunIds, n \in 1..3 : PipelineEmit(j, n)
    \/ ApplyRelay
    \/ \E j \in RunIds, o \in {"ok", "fail", "raise"} : PipelineReturn(j, o)
    \/ \E j \in RunIds, r \in BOOLEAN : RunJobEnd(j, r)
    \/ \E j \in RunIds : cancel_job(j)
    \/ cancel_all_jobs
    \/ \E j \in RunIds : CancelRequest(j)

SpecCancel == Init /\ [][NextCancel]_vars

\* the executor running one Job, with its metadata pre-fetch
NextPrefetch ==
    \/ job_store.next = 1 /\ Enqueue
    \/ \E j \in RunIds, c \in BOOLEAN : RunJobBegin(j, c)
    \/ \E j \in RunIds, n \in 1..3 : PipelineEmit(j, n)
    \/ ApplyRelayInfo
    \/ \E j \in RunIds, o \in {"ok", "fail", "raise"} : PipelineReturn(j, o)
    \/ \E j \in RunIds, r \in BOOLEAN : RunJobEnd(j, r)
    \/ \E j \in RunIds : CancelRequest(j)
    \/ \E j \in RunIds : start_metadata_prefetch(j)
    \/ \E j \in RunIds, f \in BOOLEAN : _run_metadata_prefetch(j, f)

SpecPrefetch == Init /\ [][NextPrefetch]_vars

\* the executor running one discography Job, with the cancel route
NextDisco ==
    \/ job_store.next = 1 /\ Enqueue
    \/ \E j \in RunIds : RunJobBegin(j, FALSE)
    \/ \E j \in RunIds, n \in 0..MaxReleases : DiscoBegin(j, n)
    \/ \E j \in RunIds : DiscoNext(j)
    \/ \E j \in RunIds, n \in 1..3 : ReleaseEmit(j, n)
    \/ \E j \in RunIds, o \in {"ok", "fail", "raise"} : ReleaseReturn(j, o)
    \/ ApplyRelay
    \/ \E j \in RunIds, r \in BOOLEAN : RunJobEnd(j, r)
    \/ \E j \in RunIds : CancelRequest(j)

SpecDisco == Init /\ [][NextDisco]_vars

\* one run of the pipeline with its downloader and the cancel flag
NextSync ==
    \/ \E k \in Kinds :
          sync_start(k) /\ UNCHANGED <<jvars, xvars, bvars, svars>>
    \/ SetCancel /\ UNCHANGED <<jvars, xvars, bvars, svars>>
    \/ \E ok \in BOOLEAN, n \in Tracks :
          FetchDone(ok, n) /\ UNCHANGED <<jvars, xvars, bvars, svars>>
    \/ \E i \in 0..(MaxTracks - 1), p \in TrackProgress :
          DownloadProgress(i, p) /\ UNCHANGED <<jvars, xvars, bvars, svars>>
    \/ \E o \in {"ok", "fail", "raise", "cancelled"} :
          DownloadDone(o) /\ UNCHANGED <<jvars, xvars, bvars, svars>>
    \/ \E o \in {"ok", "fail", "raise"} :
          ImportDone(o) /\ UNCHANGED <<jvars, xvars, bvars, svars>>

SpecSync == Init /\ [][NextSync]_vars

\* _scale_progress called once with arguments from these sets
ScaleInputs ==
    [index : 0..MaxReleases, total : 0..MaxReleases,
     percent : Percents \cup {NoProgress}, value : {NoProgress},
     done : {FALSE}]

InitScale ==
    /\ InitJobs /\ InitExec /\ InitBus /\ InitSched /\ InitDisco /\ InitSync
    /\ prog = NoRun
    /\ scale \in ScaleInputs
    /\ InitStream

SpecScale == InitScale /\ [][ScaleCall]_vars

\* the progress values of one discography run
NextProgress ==
    \/ \E n \in 1..MaxReleases : RunBegin(n)
    \/ \E p \in Percents \cup {NoProgress}, t \in BOOLEAN : _inner(p, t)
    \/ NextRelease

SpecProgress == Init /\ [][NextProgress]_vars

\* one request of POST /sync
NextStream ==
    \/ event_generator
    \/ progress_callback
    \/ \E success \in BOOLEAN : sync_album_returns(success)
    \/ sync_album_raises
    \/ run_sync
    \/ queue_get
    \/ keepalive
    \/ await_task

SpecStream == Init /\ [][NextStream]_vars

\* the event loop runs every coroutine that is ready: run_sync once the
\* thread has returned, the generator once the queue holds an item or the
\* task is done
SpecStreamFair ==
    /\ SpecStream
    /\ WF_vars(run_sync)
    /\ WF_vars(queue_get)
    /\ WF_vars(await_task)

\* the event bus with its subscribers and consumers
NextBus ==
    \/ \E q \in QueueIds : subscribe(q)
          /\ UNCHANGED <<jvars, xvars, svars, dvars>>
    \/ \E q \in QueueIds, how \in {"normal", "error", "cancelled"} :
          subscribe_exit(q, how) /\ UNCHANGED <<jvars, xvars, svars, dvars>>
    \/ emit /\ UNCHANGED <<jvars, xvars, svars, dvars>>
    \/ \E q \in QueueIds : Consume(q)
          /\ UNCHANGED <<jvars, xvars, svars, dvars>>

SpecBus == Init /\ [][NextBus]_vars

\* the executor's variables other than its job store
xrest == <<cancel_tokens, cancelled, pc, emitted, loopq, cret, mvars>>

\* the scheduler's loop tasks, the loop's clock and the config updates
SchedSteps ==
    \/ \E t \in TaskIds : LoopStart(t)
          /\ UNCHANGED <<jvars, xvars, bvars, dvars>>
    \/ \E t \in TaskIds : LoopWake(t)
          /\ UNCHANGED <<jvars, xrest, bvars, dvars>>
    \/ \E t \in TaskIds : StopReturn(t)
          /\ UNCHANGED <<jvars, xvars, bvars, dvars>>
    \/ SchedTick /\ UNCHANGED <<jvars, xvars, bvars, dvars>>
    \/ \E e \in BOOLEAN, i \in Intervals :
          update_config(e, i) /\ UNCHANGED <<jvars, xvars, bvars, dvars>>

NextSched ==
    \/ start /\ UNCHANGED <<jvars, xvars, bvars, dvars>>
    \/ start_running /\ UNCHANGED <<jvars, xvars, bvars, dvars>>
    \/ stop /\ UNCHANGED <<jvars, xvars, bvars, dvars>>
    \/ SchedSteps

SpecSched == Init /\ [][NextSched]_vars

\* the scheduler with sequential callers: start() and stop() are called
\* only when no earlier stop() call is still waiting
NextSchedSeq ==
    \/ awaiting = {} /\ start /\ UNCHANGED <<jvars, xvars, bvars, dvars>>
    \/ awaiting = {} /\ start_running
          /\ UNCHANGED <<jvars, xvars, bvars, dvars>>
    \/ awaiting = {} /\ stop /\ UNCHANGED <<jvars, xvars, bvars, dvars>>
    \/ SchedSteps

SpecSchedSeq == Init /\ [][NextSchedSeq]_vars

\* the scheduler with sequential callers and a repository and a job store
\* that may raise inside the loop task
NextSchedRaise ==
    \/ NextSchedSeq
    \/ \E t \in TaskIds : LoopStartRaises(t)
          /\ UNCHANGED <<jvars, xvars, bvars, dvars>>
    \/ \E t \in TaskIds, k \in 0..MaxPlaylists, created \in BOOLEAN :
          LoopWakeRaises(t, k, created)
          /\ UNCHANGED <<jvars, xrest, bvars, dvars>>

SpecSchedRaise == Init /\ [][NextSchedRaise]_vars

\* a stop() call whose awaited loop task is done and whose wake-up is in the
\* loop's ready queue
StopWakePending == \E k \in awaiting : loop_pc[k] \in Done

\* the scheduler with concurrent callers on the event loop, whose ready
\* queue is first in, first out: the wake-up of a stop() call is queued
\* when the awaited task ends, which is before a later start() queues the
\* first step of a new loop task, so that first step runs after the wake-up
NextSchedFifo ==
    \/ start /\ UNCHANGED <<jvars, xvars, bvars, dvars>>
    \/ start_running /\ UNCHANGED <<jvars, xvars, bvars, dvars>>
    \/ stop /\ UNCHANGED <<jvars, xvars, bvars, dvars>>
    \/ \E t \in TaskIds : ~StopWakePending /\ LoopStart(t)
          /\ UNCHANGED <<jvars, xvars, bvars, dvars>>
    \/ \E t \in TaskIds : LoopWake(t)
          /\ UNCHANGED <<jvars, xrest, bvars, dvars>>
    \/ \E t \in TaskIds : StopReturn(t)
          /\ UNCHANGED <<jvars, xvars, bvars, dvars>>
    \/ SchedTick /\ UNCHANGED <<jvars, xvars, bvars, dvars>>
    \/ \E e \in BOOLEAN, i \in Intervals :
          update_config(e, i) /\ UNCHANGED <<jvars, xvars, bvars, dvars>>

SpecSchedFifo == Init /\ [][NextSchedFifo]_vars

\* the manual trigger with the repository's playlist updates, the wall
\* clock and the cancel route, which makes Jobs terminal
NextSyncAll ==
    \/ /\ job_store.next <= MaxRuns + MAX_JOBS
       /\ sync_all
       /\ UNCHANGED <<jvars, xrest, bvars, dvars>>
    \/ \E p \in PlaylistIds, e \in BOOLEAN :
          update_playlist(p, e) /\ UNCHANGED <<jvars, xvars, bvars, dvars>>
    \/ Tick /\ UNCHANGED <<xvars, bvars, svars, dvars>>
    \/ \E j \in DOMAIN job_store.jobs : CancelRequest(j)

SpecSyncAll == Init /\ [][NextSyncAll]_vars

\* ------------------------------------------------------------ properties
NonTerminal == {k \in DOMAIN jobs : jobs[k].status \notin Ended}

\* C1: after any sequence of JobStore operations at most one Job in the
\* store has a non-terminal status
C1_AtMostOneNonTerminal == Cardinality(NonTerminal) <= 1

\* C2: once a Job's status is terminal, no later operation changes its
\* status to any other value
C2_TerminalIsFinal ==
    [][\A k \in DOMAIN jobs :
          (jobs[k].status \in Ended /\ k \in DOMAIN jobs')
              => jobs'[k].status = jobs[k].status]_vars

\* the Job in the active slot is still running
ActiveRunning ==
    /\ active_job_id # NoId
    /\ active_job_id \in DOMAIN jobs
    /\ jobs[active_job_id].status \notin Ended

\* a step in which create_job returned
CreateJobStep == ret' # ret \/ nextId' # nextId

RunEnded(j) == pc[j] \in {"done", "aborted"}
RunInProgress(j) == pc[j] \in {"task", "run", "ok", "fail", "raise"}
StatusOf(j) == job_store.jobs[j].status

\* C4: when the active Job's execution ends the next pending Job is started:
\* a Job is not left PENDING while no _run_job task is in progress
C4_PendingIsStarted ==
    (\A j \in RunIds : ~RunInProgress(j))
        => \A j \in DOMAIN job_store.jobs : StatusOf(j) # PENDING

\* C5: no two Jobs' pipelines execute at the same time
C5_OnePipelineAtATime == Cardinality({j \in RunIds : pc[j] = "run"}) <= 1

\* C6: when _run_job ends, whatever the outcome, the Job's CancelToken is no
\* longer registered and the active slot has been released
C6_CleanupAlways ==
    \A j \in RunIds :
        RunEnded(j) => j \notin cancel_tokens /\ job_store.active # j

\* C7: a Job whose run has ended is in a terminal status, also when its
\* token was set through cancel_job or cancel_all_jobs
C7_RunEndsTerminal ==
    \A j \in RunIds :
        pc[j] = "done" => j \in DOMAIN job_store.jobs /\ is_finished(StatusOf(j))

\* C8: a Job cancelled while PENDING and not yet started stays CANCELLED and
\* its pipeline is never run, also when the release_active/pop_next_pending
\* chain reaches it
C8_CancelledPendingNeverRuns ==
    [][\A j \in DOMAIN job_store.jobs :
          (StatusOf(j) = CANCELLED /\ pc[j] = "none")
              => /\ pc'[j] = "none"
                 /\ j \in DOMAIN job_store'.jobs
                 /\ job_store'.jobs[j].status = CANCELLED]_vars

\* Job 2 was cancelled while pending behind Job 1, and Job 1's run has ended
\* and chained on without starting it
C8_Witness ==
    /\ 2 \in DOMAIN job_store.jobs
    /\ StatusOf(2) = CANCELLED
    /\ pc[2] = "none"
    /\ pc[1] = "done"

\* C9: cancel_job for an id without a registered token returns False and
\* changes no token, Job or registry entry; with a registered token it sets
\* exactly that token and returns True
C9_CancelJob ==
    [][cret' # cret
          => IF cret'.job \notin cancel_tokens
             THEN /\ cret'.ok = FALSE
                  /\ UNCHANGED <<cancelled, cancel_tokens, job_store>>
             ELSE /\ cret'.ok = TRUE
                  /\ cancelled' = cancelled \cup {cret'.job}
                  /\ UNCHANGED <<cancel_tokens, job_store>>]_vars

\* cancel_job on a still pending Job returned False
C9_Witness ==
    /\ cret.job \in DOMAIN job_store.jobs
    /\ StatusOf(cret.job) = PENDING
    /\ cret.job \notin cancel_tokens
    /\ cret.ok = FALSE

\* C10: if the token is set when _run_job handles the pipeline's outcome
\* (result or exception), the Job's status is left as it was
C10_CancelledStatusKept ==
    [][\A j \in DOMAIN job_store.jobs :
          (pc[j] \in {"ok", "fail", "raise"} /\ RunEnded(j)' /\ j \in cancelled)
              => job_store'.jobs[j].status = StatusOf(j)]_vars

\* C11: when a step of _run_job after the FETCHING_INFO transition raises
\* (the pipeline call, or the ValueError of a discography Job without
\* channel_id), the run ends with the Job FAILED unless it was already
\* terminal, and unless the token is set the task ends normally
C11_ExceptionBecomesFailed ==
    [][\A j \in DOMAIN job_store.jobs :
          (pc[j] \in {"raise", "task"} /\ RunEnded(j)')
              => /\ IF is_finished(StatusOf(j))
                    THEN job_store'.jobs[j].status = StatusOf(j)
                    ELSE job_store'.jobs[j].status = FAILED
                 /\ j \notin cancelled => pc'[j] = "done"]_vars

\* the pipeline of a Job that is not terminal and not cancelled has raised
\* and its task is about to handle the exception
C11_Witness ==
    \E j \in DOMAIN job_store.jobs :
        /\ pc[j] = "raise"
        /\ j \notin cancelled
        /\ ~is_finished(StatusOf(j))
        /\ loopq # <<>>
        /\ Head(loopq) = Callback("wake", j, NoStatus)

\* C12: when the pipeline returned a failed result and the token is not set,
\* handling the result leaves the Job FAILED with an error message recorded
C12_FailureRecordsError ==
    [][\A j \in DOMAIN job_store.jobs :
          (pc[j] = "fail" /\ j \notin cancelled /\ ~is_finished(StatusOf(j))
             /\ RunEnded(j)')
              => /\ job_store'.jobs[j].status = FAILED
                 /\ job_store'.jobs[j].error # NoError]_vars

\* C13: a Job that is non-terminal and holds the active slot is, when it is
\* next read more than TIMEOUT_SECONDS later (nothing else having touched
\* it), returned FAILED with the timeout error and completed_at set
C13_ActiveTooLongFails ==
    ActiveRunning
        => \A d \in TickSteps :
              d > TIMEOUT_SECONDS
                  => LET job == CheckTimeoutAt(jobs[active_job_id], now + d)
                     IN  /\ job.status = FAILED
                         /\ job.error = TimeoutError
                         /\ job.completed_at # NoTime

\* C14: a Job that create_job removes from the store to make room is in a
\* terminal status
C14_EvictsTerminalOnly ==
    [][nextId' # nextId
          => \A k \in DOMAIN jobs :
                k \notin DOMAIN jobs' => jobs[k].status \in Ended]_vars

PendingJobs(s) == {k \in DOMAIN s.jobs : s.jobs[k].status = PENDING}

Max(S) == CHOOSE x \in S : \A y \in S : x >= y

\* C16: an emit puts the new event at the end of every subscribed queue; a
\* queue at capacity loses exactly its oldest item for it; no queue ever
\* holds more than SUBSCRIBER_QUEUE_SIZE items
C16_DropOldest ==
    [][nevents' # nevents
          => \A q \in QueueIds :
                /\ Len(queues'[q]) <= SUBSCRIBER_QUEUE_SIZE
                /\ q \in Subscribed
                      => queues'[q] =
                            IF Len(queues[q]) = SUBSCRIBER_QUEUE_SIZE
                            THEN Append(Tail(queues[q]), nevents')
                            ELSE Append(queues[q], nevents')]_vars

\* a subscribed queue is full and has lost an event it once held
C16_Witness ==
    \E q \in Subscribed :
        /\ Len(queues[q]) = SUBSCRIBER_QUEUE_SIZE
        /\ Head(queues[q]) > Max({since[q], last[q]}) + 1

\* what holds of a queue whose events arrive in emission order, none twice,
\* and are lost at the oldest end only: its items are consecutive events,
\* all emitted after the queue was subscribed and after the event its
\* consumer took last
InOrder(q) ==
    /\ \A i \in 1..(Len(queues[q]) - 1) : queues[q][i + 1] = queues[q][i] + 1
    /\ queues[q] # <<>>
          => /\ Head(queues[q]) > since[q]
             /\ Head(queues[q]) > last[q]
             /\ queues[q][Len(queues[q])] <= nevents
    /\ last[q] # 0 => last[q] > since[q]

\* C17: under every interleaving of emit, consume, subscribe and exit each
\* queue stays in emission order, and what a consumer takes is the oldest
\* item of its queue, newer than everything it took before
C17_EmissionOrder ==
    [][/\ \A q \in QueueIds : InOrder(q)'
       /\ \A q \in QueueIds :
             last'[q] # last[q]
                 => /\ last'[q] = Head(queues[q])
                    /\ last'[q] > last[q]
                    /\ queues'[q] = Tail(queues[q])]_vars

\* a consumer has taken an event, and its queue has since lost the events
\* that followed it and holds newer ones
C17_Witness ==
    \E q \in Subscribed :
        /\ last[q] > since[q]
        /\ queues[q] # <<>>
        /\ Head(queues[q]) > last[q] + 1

\* C18: a queue is in the subscriber list, once, exactly while its
\* subscribe() context is entered and not yet left, however it is left; a
\* queue outside the list is not added to; a queue leaving the list leaves
\* the other queues in it
C18_SubscribedInsideContext ==
    [][/\ \A q \in QueueIds : (q \in Subscribed <=> sub_pc[q] = "in")'
       /\ Len(subscribers') = Cardinality(Subscribed')
       /\ \A q \in QueueIds :
             /\ q \notin Subscribed' => queues'[q] = queues[q]
             /\ (q \in Subscribed /\ q \notin Subscribed')
                   => Subscribed' = Subscribed \ {q}]_vars

\* a consumer left its context by an exception; another subscriber has since
\* been sent an event that the removed queue did not get
C18_Witness ==
    \E q \in QueueIds, r \in Subscribed :
        /\ sub_pc[q] = "error"
        /\ queues[q] # <<>>
        /\ queues[r] # <<>>
        /\ queues[r][Len(queues[r])] > queues[q][Len(queues[q])]

\* the events lo+1 .. hi in order
Events(lo, hi) == [i \in 1..(hi - lo) |-> lo + i]

\* C19: emit can always be carried out, whatever the state of the queues,
\* and the contents of a subscribed queue are fixed by the events emitted,
\* the moment it subscribed and what its own consumer took: they do not
\* depend on any other subscriber
C19_NoInterference ==
    /\ nevents < MaxEvents
          => ENABLED (emit /\ UNCHANGED <<jvars, xvars, svars, dvars>>)
    /\ \A q \in Subscribed :
          queues[q] =
              Events(Max({since[q], last[q],
                          nevents - SUBSCRIBER_QUEUE_SIZE}), nevents)

\* subscriber a never consumed and its full queue is losing events, while
\* subscriber b, subscribed since the same moment, consumed and holds other
\* items
C19_Witness ==
    \E a \in Subscribed, b \in Subscribed :
        /\ a # b
        /\ since[a] = since[b]
        /\ last[a] = 0
        /\ QueueFull(queues[a])
        /\ Head(queues[a]) > since[a] + 1
        /\ last[b] > since[b]
        /\ queues[b] # <<>>
        /\ queues[b] # queues[a]

\* C20: once a stop() call has returned, the loop task it stopped is done
\* and is_running is False at that moment; a loop task syncs no more after
\* stop() was called on it; stop() without a task changes nothing
C20_StopStops ==
    [][/\ \A t \in stopped' : loop_pc'[t] \in Done
       /\ stopped' # stopped => ~is_running'
       /\ \A t \in TaskIds :
             /\ synced'[t] # synced[t]
                   => t \notin stopped /\ t \notin must_cancel
             /\ loop_pc[t] \in Done => loop_pc'[t] = loop_pc[t]
       /\ task = NoId
             => ~ENABLED (stop /\ svars' # svars
                               /\ UNCHANGED <<jvars, xvars, bvars, dvars>>)]_vars

\* a loop task that had synced was waiting again when stop() cancelled it,
\* and that stop() call has returned
C20_Witness ==
    \E t \in stopped :
        /\ loop_pc[t] = "cancelled"
        /\ synced[t] > 0
        /\ task = NoId

\* the loop tasks that were created and are not done
Alive == {t \in TaskIds : loop_pc[t] \notin Done \cup {"none"}}

\* C21: while a loop is running, a start() call changes nothing of the
\* scheduler; with sequential start() and stop() calls at most one loop task
\* is alive, and it is the scheduler's task
C21_OneLoopTask ==
    /\ is_running
          => ~ENABLED ((start \/ start_running) /\ svars' # svars
                          /\ UNCHANGED <<jvars, xvars, bvars, dvars>>)
    /\ Cardinality(Alive) <= 1
    /\ Alive \subseteq {task}

\* a second loop is running after the first was stopped, so start() on it
\* is the no-op case
C21_Witness ==
    /\ is_running
    /\ \E t \in stopped : t # task /\ loop_pc[t] = "cancelled"

\* C22: a loop task syncs only at the end of a wait that lasted the whole
\* interval and during which stop was not signalled; every iteration starts
\* its wait at zero with the interval the config holds at that moment
C22_WaitFirst ==
    [][\A t \in TaskIds :
          /\ synced'[t] # synced[t]
                => /\ loop_pc[t] = "waiting"
                   /\ iter[t].waited >= iter[t].interval
                   /\ iter[t].event \notin event_set
                   /\ t \notin must_cancel
          /\ (loop_pc'[t] = "waiting"
                 /\ (loop_pc[t] # "waiting" \/ synced'[t] # synced[t]))
                => /\ iter'[t].waited = 0
                   /\ iter'[t].interval = config.interval]_vars

\* a loop task has synced twice and waited a whole interval again, the
\* interval being one that the config was changed to
C22_Witness ==
    \E t \in TaskIds :
        /\ synced[t] > 1
        /\ loop_pc[t] = "waiting"
        /\ iter[t].interval > 1
        /\ iter[t].waited = iter[t].interval

\* C23: a loop task syncs only if recurring sync is enabled in the config
\* at the moment its wait ends
C23_EnabledAtWaitEnd ==
    [][\A t \in TaskIds : synced'[t] # synced[t] => config.enabled]_vars

\* the playlists on which a run recorded something
Recorded(before, after) == {p \in PlaylistIds : after[p] # before[p]}

\* C24: one run of _sync_all_enabled calls create once for each enabled
\* playlist, in order, and for no other; each id it returns is a new Job of
\* the store and is recorded, with the timestamp, on exactly one enabled
\* playlist; nothing else is recorded, so a rejected playlist keeps its
\* fields and the playlists after it are still tried
C24_SyncAllEnabled ==
    LET r == _sync_all_enabled(job_store, playlists, now)
        ids == {r.job_ids[i] : i \in DOMAIN r.job_ids}
    IN  /\ r.calls = list_enabled_playlists(playlists)
        /\ Cardinality(ids) = Len(r.job_ids)
        /\ ids \subseteq DOMAIN r.store.jobs \ DOMAIN job_store.jobs
        /\ Cardinality(DOMAIN r.store.jobs \ DOMAIN job_store.jobs)
              = Len(r.job_ids)
        /\ Cardinality(Recorded(playlists, r.playlists)) = Len(r.job_ids)
        /\ \A p \in Recorded(playlists, r.playlists) :
              /\ playlists[p].enabled
              /\ r.playlists[p] =
                    [playlists[p] EXCEPT
                        !.last_job_id = r.playlists[p].last_job_id,
                        !.last_sync_at = now]
              /\ r.playlists[p].last_job_id \in ids
        /\ \A p, q \in Recorded(playlists, r.playlists) :
              r.playlists[p].last_job_id = r.playlists[q].last_job_id => p = q
        /\ \A i, k \in DOMAIN r.calls :
              (i < k /\ r.calls[k] \in Recorded(playlists, r.playlists)
                     /\ Terminal(job_store) = {})
                  => r.calls[i] \in Recorded(playlists, r.playlists)

\* after an earlier run, a run now would create a Job for one enabled
\* playlist and be rejected for another
C24_Witness ==
    LET r == _sync_all_enabled(job_store, playlists, now)
    IN  /\ Len(r.job_ids) > 0
        /\ Len(r.calls) > Len(r.job_ids)
        /\ \E p \in PlaylistIds : playlists[p].last_job_id # NoId
        /\ now > 0

\* the place of a status in PENDING, FETCHING_INFO, DOWNLOADING, IMPORTING,
\* terminal
Phase(status) ==
    IF status = PENDING THEN 0
    ELSE IF status = FETCHING_INFO THEN 1
    ELSE IF status = DOWNLOADING THEN 2
    ELSE IF status = IMPORTING THEN 3
    ELSE 4

\* C25: during a run a Job's status never goes back to an earlier phase, in
\* a discography run as in any other, and CANCELLED is entered only from a
\* non-terminal status
C25_StatusNeverGoesBack ==
    [][\A j \in DOMAIN job_store.jobs :
          j \in DOMAIN job_store'.jobs
              => /\ Phase(job_store'.jobs[j].status) >= Phase(StatusOf(j))
                 /\ (job_store'.jobs[j].status = CANCELLED
                        /\ StatusOf(j) # CANCELLED)
                       => ~is_finished(StatusOf(j))]_vars

\* run() returns in this step
DiscoReturnStep(j) == disco[j].pc # "returned" /\ disco'[j].pc = "returned"

\* C28: a release's pipeline starts only from the head of the loop, for the
\* release at the current index and with the token not set; the index moves
\* on by one when that pipeline has ended; a run that returns with the token
\* set has success = false
C28_CancelBetweenReleases ==
    [][\A j \in RunIds :
          /\ (disco[j].pc # "release" /\ disco'[j].pc = "release")
                => /\ j \notin cancelled
                   /\ disco[j].pc = "loop"
                   /\ disco'[j].index = disco[j].index
                   /\ disco[j].index < disco[j].total
          /\ (disco[j].pc # "none" /\ disco'[j].index # disco[j].index)
                => /\ disco[j].pc = "release"
                   /\ disco'[j].index = disco[j].index + 1
          /\ (DiscoReturnStep(j) /\ j \in cancelled)
                => ~disco'[j].success]_vars

\* a run cancelled after its first release completed has returned without
\* starting the remaining releases
C28_Witness ==
    \E j \in RunIds :
        /\ disco[j].pc = "returned"
        /\ disco[j].completed > 0
        /\ disco[j].index < disco[j].total
        /\ ~disco[j].success

\* the second of three releases raised and nothing else went wrong
SecondRaised(d) ==
    d.total = 3 /\ d.index = 3 /\ d.errors = <<Error(1, "raise")>>

\* C29: a release that raises or fails adds exactly one error and the loop
\* goes on to the next release; a release that succeeds adds one to
\* completed; with 3 releases of which only the second raises, and no
\* cancellation, the result has completed_releases = 2, one error and
\* success = true
C29_FailedReleaseSkipped ==
    [][\A j \in RunIds :
          /\ (disco[j].pc = "release" /\ disco'[j].pc # "release")
                => /\ disco'[j].pc = "loop"
                   /\ disco'[j].index = disco[j].index + 1
                   /\ \/ /\ disco'[j].completed = disco[j].completed + 1
                         /\ disco'[j].errors = disco[j].errors
                      \/ /\ disco'[j].completed = disco[j].completed
                         /\ Len(disco'[j].errors) = Len(disco[j].errors) + 1
          /\ (DiscoReturnStep(j) /\ SecondRaised(disco[j])
                 /\ j \notin cancelled)
                => /\ disco'[j].completed = 2
                   /\ Len(disco'[j].errors) = 1
                   /\ disco'[j].success]_vars

\* the run of the scenario has returned
C29_Witness ==
    \E j \in RunIds :
        /\ disco[j].pc = "returned"
        /\ SecondRaised(disco[j])
        /\ disco[j].completed = 2
        /\ disco[j].success

\* C30: run() returns success = true exactly when a release completed and
\* the token is not set; completed_releases + len(errors) is the number of
\* releases attempted, which is total_releases when the token is not set;
\* an empty plan returns success = false with one error and nothing is
\* reported
C30_DiscographyResult ==
    [][\A j \in RunIds :
          /\ (disco'[j].total > 0)
                => disco'[j].completed + Len(disco'[j].errors)
                      = disco'[j].index
          /\ (DiscoReturnStep(j) /\ disco'[j].total > 0)
                => /\ disco'[j].success
                         <=> (disco'[j].completed > 0 /\ j \notin cancelled)
                   /\ j \notin cancelled
                         => disco'[j].index = disco'[j].total
          /\ (DiscoReturnStep(j) /\ disco'[j].total = 0)
                => /\ ~disco'[j].success
                   /\ disco'[j].completed = 0
                   /\ Len(disco'[j].errors) = 1
                   /\ disco[j].pc = "none"
                   /\ Relays' = Relays]_vars

\* a run has returned success with some releases completed and some failed
C30_Witness ==
    \E j \in RunIds :
        /\ disco[j].pc = "returned"
        /\ disco[j].success
        /\ disco[j].completed > 0
        /\ Len(disco[j].errors) > 0
        /\ disco[j].index = disco[j].total

\* C26: the pipeline enters the download phase and the tag/import phase
\* only while cancel_check does not report cancellation, and a run that
\* returns with cancellation reported returns no success
C26_NoPhaseAfterCancel ==
    [][/\ (pipeline'.pc = "download" /\ pipeline.pc # "download")
             => ~pipeline.cancel
       /\ (pipeline'.pc = "import" /\ pipeline.pc # "import")
             => ~pipeline.cancel
       /\ (pipeline'.pc = "returned" /\ pipeline.pc # "returned"
              /\ pipeline.cancel)
             => ~pipeline'.success]_vars

\* the pre-fetch task of job j delivers its result in this step
PrefetchArrives(j) == prefetch[j] = "running" /\ prefetch'[j] = "done"

\* C27: the step in which a pre-fetch result arrives leaves the Job's status
\* as it is, and changes the Job at all only if the Job is still PENDING
C27_PrefetchOnlyPending ==
    [][\A j \in DOMAIN job_store.jobs :
          PrefetchArrives(j)
              => /\ job_store'.jobs[j].status = StatusOf(j)
                 /\ StatusOf(j) # PENDING
                       => /\ job_store' = job_store
                          /\ content_info'[j] = content_info[j]]_vars

\* C31: _scale_progress gives back percent itself when percent is None or
\* total <= 0; else its value is within 0..100, and for index < total it is
\* inside the slice of that release, from index * 100 / total to
\* (index + 1) * 100 / total
C31_ScaleProgress ==
    scale.done =>
        /\ scale.total <= 0 \/ scale.percent = NoProgress
              => scale.value = scale.percent
        /\ scale.total > 0 /\ scale.percent # NoProgress
              => /\ ~Less(float(100), scale.value)
                 /\ scale.index < scale.total
                       => /\ ~Less(Times(scale.total, scale.value),
                                   float(100 * scale.index))
                          /\ ~Less(float(100 * (scale.index + 1)),
                                   Times(scale.total, scale.value))

\* C32: in a discography run the values given to on_progress never go
\* down, and the Job's progress never goes down and stays within 0..100
C32_ProgressNeverDecreases ==
    [][prog.pc = "run" /\ prog'.pc = "run"
          => /\ ~Less(prog'.relayed, prog.relayed)
             /\ ~Less(prog'.progress, prog.progress)
             /\ ~Less(float(100), prog'.progress)]_vars

\* progress is a value from lo to hi
Within(progress, lo, hi) ==
    ~Less(progress, float(lo)) /\ ~Less(float(hi), progress)

\* C33: every progress value sync_album emits is within the range of its
\* phase: 0..10 while fetching the info, 10..90 while downloading, 90..100
\* while importing, and 100 with COMPLETED
C33_PhaseRanges ==
    pipeline.kind = "album" =>
        \A i \in 1..Len(events) :
            events[i].progress # NoProgress =>
                /\ events[i].step = FETCHING_INFO
                      => Within(events[i].progress, 0, 10)
                /\ events[i].step = DOWNLOADING
                      => Within(events[i].progress, 10, 90)
                /\ events[i].step = IMPORTING
                      => Within(events[i].progress, 90, 100)
                /\ events[i].step = COMPLETED
                      => events[i].progress = float(100)

\* the Jobs a step takes out of the store
Removed == (DOMAIN jobs) \ (DOMAIN jobs')

\* what a step of delete_job or clear_completed does to the store
DeleteStep ==
    /\ \A j \in JobIds :
          delete_job(j)
             => /\ Removed = IF delete_job_returns(j) THEN {j} ELSE {}
                /\ ~delete_job_returns(j) => jobs' = jobs
    /\ clear_completed
          => /\ Removed = {k \in DOMAIN jobs : jobs[k].status \in Ended}
             /\ Cardinality(Removed) = clear_completed_returns
    /\ (clear_completed \/ \E j \in JobIds : delete_job(j))
          => /\ \A k \in Removed : jobs[k].status \in Ended
             /\ \A k \in DOMAIN jobs' : jobs'[k] = jobs[k]
             /\ active_job_id' = active_job_id

\* C34: delete_job takes out the Job it names if that Job is there and
\* ended, and else returns False and changes nothing; clear_completed takes
\* out the ended Jobs, all of them and no other, and returns how many they
\* are; the Jobs left are as they were and so is the active slot
C34_DeleteOnlyEnded == [][DeleteStep]_vars

\* C34 witness: the first Job is gone from a store that was never full,
\* and the second one, not ended, is still there and holds the slot
C34_Witness ==
    /\ nextId = 3
    /\ DOMAIN jobs = {2}
    /\ jobs[2].status \notin Ended
    /\ active_job_id = 2

\* C36: after every step of the store the active slot is empty or holds
\* the id of a Job that is in the store and has not ended, and no step
\* takes the Job of the slot out of the store
C36_ActiveSlotValid ==
    [][/\ active_job_id' # NoId
             => /\ active_job_id' \in DOMAIN jobs'
                /\ jobs'[active_job_id'].status \notin Ended
       /\ active_job_id # NoId => active_job_id \notin Removed]_vars

\* C36 witness: the oldest of three Jobs is gone from the store and the
\* newest holds the slot
C36_Witness ==
    /\ nextId = 4
    /\ DOMAIN jobs = {2, 3}
    /\ active_job_id = 3
    /\ jobs[2].status \in Ended

\* the data items sent so far are the first events emitted, in order
StreamInOrder ==
    LET data == SelectSeq(stream.sent, LAMBDA item : item.kind = "data")
    IN  /\ Len(data) <= stream.emitted
        /\ \A i \in 1..Len(data) : data[i] = DataItem(i)

\* a complete item is the last item, the sync has finished by then and
\* every event emitted was sent before it
StreamEndsComplete ==
    /\ \A i \in 1..Len(stream.sent) :
           stream.sent[i] = CompleteItem =>
               /\ i = Len(stream.sent)
               /\ stream.gen = "ended"
               /\ stream.task = "done"
               /\ Len(stream.sent) = stream.emitted + 1
    /\ stream.gen = "ended" =>
           /\ stream.sent # <<>>
           /\ stream.sent[Len(stream.sent)] = CompleteItem

\* C35: the stream of POST /sync sends every event the pipeline emitted, in
\* emission order, then exactly one complete item as its last item, and it
\* does so whenever the sync has finished: returned a success, returned a
\* failure or raised
C35_ProgressStream ==
    /\ [](StreamInOrder /\ StreamEndsComplete)
    /\ (stream.task \in {"done", "raised"}) ~> (stream.gen = "ended")

\* the step in which the transition on_progress scheduled for job_id runs on
\* the loop and changes the Job
RelayApplied(job_id) ==
    /\ loopq # <<>>
    /\ Head(loopq) \in {Callback("relay", job_id, status) :
                           status \in {FETCHING_INFO, DOWNLOADING, IMPORTING}}
    /\ loopq' = Tail(loopq)
    /\ job_store'.jobs # job_store.jobs

RelayInTime ==
    \A job_id \in RunIds :
        RelayApplied(job_id) =>
            /\ job_id \notin cancelled
            /\ ~is_finished(job_store.jobs[job_id].status)

\* C37: a transition scheduled by on_progress is applied to the Job only
\* while the Job's token is not set and the Job is not in a terminal status
C37_RelayNotAfterCancel == [][RelayInTime]_vars

\* C38: with start() and stop() called by concurrent tasks, a loop task
\* that is alive is the only one alive and is the one the scheduler
\* references, so that is_running is True and a later stop() reaches it
C38_LiveLoopReferenced ==
    \A t \in Alive : Alive = {t} /\ task = t /\ is_running

\* a step in which get_config or _sync_all_enabled raises in loop task t
Raises(t) ==
    \/ LoopStartRaises(t)
    \/ \E k \in 0..MaxPlaylists, created \in BOOLEAN :
           LoopWakeRaises(t, k, created)

\* what a raise in loop task t, and a later stop() or start(), have to do
RaiseHandled(t) ==
    /\ Raises(t) => loop_pc'[t] = "crashed" /\ (task' = t => ~is_running')
    /\ loop_pc[t] = "crashed" =>
           /\ loop_pc'[t] = "crashed"
           /\ synced'[t] = synced[t]
           /\ iter'[t] = NoIter
    /\ task = t /\ loop_pc[t] = "crashed" /\ stop =>
           /\ task' = NoId
           /\ stop_event' = NoId
    /\ task = t /\ loop_pc[t] = "crashed" /\ task' # task /\ task' # NoId =>
           /\ loop_pc[task'] = "none"
           /\ loop_pc'[task'] = "created"
           /\ stop_event' = task'
           /\ stop_event' \notin event_set'
           /\ is_running'

\* C39: when get_config or the create-jobs routine raises in the loop task,
\* the task ends and is_running is False; it runs no further cycle; a later
\* stop() still clears _task and _stop_event; a later start() makes a new
\* Event and a new loop task
C39_RaiseEndsLoop == [][\A t \in TaskIds : RaiseHandled(t)]_vars

\* a loop that had run a cycle ended by a raise in its next one, stop() was
\* called afterwards, and the loop of a later start() is waiting
C39_Witness ==
    /\ loop_pc[1] = "crashed"
    /\ synced[1] = 2
    /\ 1 \in stopped
    /\ task = 2
    /\ loop_pc[2] = "waiting"

\* the positions of the events with step COMPLETED and of the terminal
\* events among the events emitted
CompletedAt == {i \in 1..Len(events) : events[i].step = COMPLETED}

TerminalAt == {i \in 1..Len(events) : events[i].step \in {COMPLETED, FAILED}}

\* a terminal event is the only one, is the last event and is emitted as
\* the run returns; COMPLETED goes with success
TerminalEvents ==
    /\ Cardinality(TerminalAt) <= 1
    /\ \A i \in TerminalAt : i = Len(events) /\ pipeline.pc = "returned"
    /\ pipeline.pc = "returned" => (pipeline.success <=> CompletedAt # {})

\* the step in which download_album reports a cancelled download
CancelledDownload ==
    DownloadDone("cancelled") =>
        /\ pipeline'.pc = "returned"
        /\ ~pipeline'.success
        /\ events' = events
        /\ TerminalAt = {}
        /\ \A i \in 1..Len(events) : events[i].step # IMPORTING

====
